---- MODULE Spec2Model ----
(***************************************************************************)
(* Verification model of agent-starter: the session/environment managers   *)
(* (local folder, docker container, azure dynamic session), the API turn   *)
(* handlers that drive them, and the streamQuery event generator.          *)
(***************************************************************************)
EXTENDS Integers, Sequences, FiniteSets, TLC

(***************************************************************************)
(* Bounds of the model.                                                    *)
(***************************************************************************)
MaxSessions == 2
MaxEnvs == 3
MaxCalls == 5
MaxMsgs == 3
MaxTurns == 2
MaxTurnMsgs == 1
MaxTrackOps == 4
MaxBlocks == 3
MaxAgEvents == 5
MaxDetailTurns == 1
MaxDetailMsgs == 2
MaxToolCalls == 1
MaxStoreOps == 4
MaxExecs == 1
MaxReasons == 3
MaxTitleTurns == 2
MaxPending == 1

(***************************************************************************)
(* Identifiers.  Conversation identities are issued by the agent runtime,  *)
(* environment ids by crypto.randomUUID(); both are opaque strings, and    *)
(* the two generators never produce the same string.                       *)
(***************************************************************************)
None == <<"none", 0>>
Explicit == <<"explicit", 0>>
SessionIds == {<<"sid", i>> : i \in 1..MaxSessions}
EnvIds == {<<"env", i>> : i \in 1..MaxEnvs}
Strategies == {"local", "docker", "azure"}

EmptyMap == [x \in {} |-> None]
MapGet(f, k) == IF k \in DOMAIN f THEN f[k] ELSE None
MapSet(f, k, v) == [x \in DOMAIN f \cup {k} |-> IF x = k THEN v ELSE f[x]]
MapDelete(f, k) == [x \in DOMAIN f \ {k} |-> f[x]]

(***************************************************************************)
(* Session managers.  A manager is the record                              *)
(*   strategy     the class selected by createSessionManager               *)
(*   sessionToEnv Map<sdkSessionId, envId>                                 *)
(*   dirs         directories existing under baseDir (local strategy)      *)
(*   containers   keys of the containers map (docker strategy)             *)
(*   uuids        number of crypto.randomUUID() values drawn so far        *)
(* Every operation returns the new manager with what the call returned:    *)
(* envId, whether a backing resource was created (mkdir / docker run),     *)
(* whether a fresh identifier was drawn, and whether the call raised.      *)
(***************************************************************************)
NewManager(s) ==
  [strategy |-> s, sessionToEnv |-> EmptyMap, dirs |-> {}, containers |-> {},
   uuids |-> 0]

RandomUUID(m) == <<"env", m.uuids + 1>>

\* Mutant: the lookup of the resumed identity is skipped.
ExistingEnvId_NoLookup(m, sessionId) == None

\* sessionId ? this.sessionToEnv.get(sessionId) : undefined
ExistingEnvId(m, sessionId) ==
  IF sessionId # None THEN MapGet(m.sessionToEnv, sessionId) ELSE None

LocalPrepare(m, sessionId) ==
  LET existingEnvId == ExistingEnvId(m, sessionId)
      fresh == existingEnvId = None
      envId == IF fresh THEN RandomUUID(m) ELSE existingEnvId
      mk == envId \notin m.dirs
  IN [m |-> [m EXCEPT !.dirs = @ \cup {envId},
                      !.uuids = IF fresh THEN @ + 1 ELSE @],
      envId |-> envId, created |-> mk, fresh |-> fresh, raised |-> FALSE]

LocalMapSession(m, sdkSessionId, envId) ==
  [m EXCEPT !.sessionToEnv = MapSet(@, sdkSessionId, envId)]

\* Mutant: the directory is removed but the mapping is kept.
LocalDestroy_KeepMapping(m, sessionId) ==
  LET envId == IF sessionId \in DOMAIN m.sessionToEnv
               THEN m.sessionToEnv[sessionId] ELSE sessionId
  IN [m |-> [m EXCEPT !.dirs = @ \ {envId}], raised |-> FALSE]

LocalDestroy(m, sessionId) ==
  LET envId == IF sessionId \in DOMAIN m.sessionToEnv
               THEN m.sessionToEnv[sessionId] ELSE sessionId
  IN [m |-> [m EXCEPT !.dirs = @ \ {envId},
                      !.sessionToEnv = MapDelete(@, sessionId)],
      raised |-> FALSE]

\* runOk: outcome of `docker run` / `docker port`; a failure propagates.
DockerPrepare(m, sessionId, runOk) ==
  LET existingEnvId == ExistingEnvId(m, sessionId)
  IN IF existingEnvId # None /\ existingEnvId \in m.containers
     THEN [m |-> m, envId |-> existingEnvId, created |-> FALSE,
           fresh |-> FALSE, raised |-> FALSE]
     ELSE IF runOk
          THEN [m |-> [m EXCEPT !.containers = @ \cup {RandomUUID(m)},
                                !.uuids = @ + 1],
                envId |-> RandomUUID(m), created |-> TRUE, fresh |-> TRUE,
                raised |-> FALSE]
          ELSE [m |-> [m EXCEPT !.uuids = @ + 1],
                envId |-> None, created |-> FALSE, fresh |-> TRUE,
                raised |-> TRUE]

DockerMapSession(m, sdkSessionId, envId) ==
  [m EXCEPT !.sessionToEnv = MapSet(@, sdkSessionId, envId)]

\* Mutant: the failure of `docker stop` is not caught.
DockerDestroy_NoCatch(m, sessionId, stopOk) ==
  LET envId == IF sessionId \in DOMAIN m.sessionToEnv
               THEN m.sessionToEnv[sessionId] ELSE sessionId
  IN IF envId \notin m.containers
     THEN [m |-> m, raised |-> FALSE]
     ELSE IF ~stopOk
          THEN [m |-> m, raised |-> TRUE]
          ELSE [m |-> [m EXCEPT !.containers = @ \ {envId},
                                !.sessionToEnv = MapDelete(@, sessionId)],
                raised |-> FALSE]

\* stopOk: outcome of `docker stop`; the failure is caught and ignored.
DockerDestroy(m, sessionId, stopOk) ==
  LET envId == IF sessionId \in DOMAIN m.sessionToEnv
               THEN m.sessionToEnv[sessionId] ELSE sessionId
  IN IF envId \notin m.containers
     THEN [m |-> m, raised |-> FALSE]
     ELSE [m |-> [m EXCEPT !.containers = @ \ {envId},
                           !.sessionToEnv = MapDelete(@, sessionId)],
           raised |-> FALSE]

AzurePrepare(m, sessionId) ==
  LET existingEnvId == ExistingEnvId(m, sessionId)
      fresh == existingEnvId = None
  IN [m |-> [m EXCEPT !.uuids = IF fresh THEN @ + 1 ELSE @],
      envId |-> IF fresh THEN RandomUUID(m) ELSE existingEnvId,
      created |-> FALSE, fresh |-> fresh, raised |-> FALSE]

AzureMapSession(m, sdkSessionId, envId) ==
  [m EXCEPT !.sessionToEnv = MapSet(@, sdkSessionId, envId)]

AzureDestroy(m, sessionId) ==
  [m |-> [m EXCEPT !.sessionToEnv = MapDelete(@, sessionId)],
   raised |-> FALSE]

\* The SessionManager interface, dispatched on the selected strategy.
Prepare(m, sessionId, runOk) ==
  CASE m.strategy = "local" -> LocalPrepare(m, sessionId)
    [] m.strategy = "docker" -> DockerPrepare(m, sessionId, runOk)
    [] m.strategy = "azure" -> AzurePrepare(m, sessionId)

MapSession(m, sdkSessionId, envId) ==
  CASE m.strategy = "local" -> LocalMapSession(m, sdkSessionId, envId)
    [] m.strategy = "docker" -> DockerMapSession(m, sdkSessionId, envId)
    [] m.strategy = "azure" -> AzureMapSession(m, sdkSessionId, envId)

Destroy(m, sessionId, stopOk) ==
  CASE m.strategy = "local" -> LocalDestroy(m, sessionId)
    [] m.strategy = "docker" -> DockerDestroy(m, sessionId, stopOk)
    [] m.strategy = "azure" -> AzureDestroy(m, sessionId)

\* Does a prepare(sessionId) in manager state m draw a new UUID?
DrawsUUID(m, sessionId) ==
  \/ ExistingEnvId(m, sessionId) = None
  \/ m.strategy = "docker" /\ ExistingEnvId(m, sessionId) \notin m.containers

\* The backing resource of an environment is recorded.
HasResource(m, envId) ==
  CASE m.strategy = "local" -> envId \in m.dirs
    [] m.strategy = "docker" -> envId \in m.containers
    [] m.strategy = "azure" -> TRUE

(***************************************************************************)
(* Optional values (undefined / null) are the empty sequence, a present    *)
(* value v is <<v>>.  Text is a sequence of tokens; + on strings is \o.    *)
(***************************************************************************)
Absent == <<>>
Some(v) == <<v>>
IsPresent(o) == Len(o) > 0
Val(o) == o[1]

\* The empty string as a conversation identity: a string, but falsy.
EmptyStr == <<"sid", 0>>

\* if (sid): neither undefined nor the empty string
Truthy(sid) == sid # None /\ sid # EmptyStr

(***************************************************************************)
(* Usage tracker (createUsageTracker).  A raw usage record is a record     *)
(* carrying any subset of the four snake_case fields.                      *)
(***************************************************************************)
ZeroUsage ==
  [inputTokens |-> 0, outputTokens |-> 0, cacheReadInputTokens |-> 0,
   cacheCreationInputTokens |-> 0]

\* usage.field ?? 0
Fld(usage, field) == IF field \in DOMAIN usage THEN usage[field] ELSE 0

NewTracker == [seen |-> {}, totals |-> ZeroUsage]

\* Mutant: an id already seen is counted again.
Track_NoDedup(t, messageId, usage) ==
  IF ~IsPresent(usage)
  THEN t
  ELSE [seen |-> t.seen \cup {messageId},
        totals |->
          [inputTokens |-> t.totals.inputTokens + Fld(Val(usage), "input_tokens"),
           outputTokens |-> t.totals.outputTokens + Fld(Val(usage), "output_tokens"),
           cacheReadInputTokens |->
             t.totals.cacheReadInputTokens + Fld(Val(usage), "cache_read_input_tokens"),
           cacheCreationInputTokens |->
             t.totals.cacheCreationInputTokens
               + Fld(Val(usage), "cache_creation_input_tokens")]]

\* Mutant: the cache-read counter is fed from the cache-creation field.
Track_SwappedCache(t, messageId, usage) ==
  IF ~IsPresent(usage) \/ messageId \in t.seen
  THEN t
  ELSE [seen |-> t.seen \cup {messageId},
        totals |->
          [inputTokens |-> t.totals.inputTokens + Fld(Val(usage), "input_tokens"),
           outputTokens |-> t.totals.outputTokens + Fld(Val(usage), "output_tokens"),
           cacheReadInputTokens |->
             t.totals.cacheReadInputTokens
               + Fld(Val(usage), "cache_creation_input_tokens"),
           cacheCreationInputTokens |->
             t.totals.cacheCreationInputTokens
               + Fld(Val(usage), "cache_creation_input_tokens")]]

Track(t, messageId, usage) ==
  IF ~IsPresent(usage) \/ messageId \in t.seen
  THEN t
  ELSE [seen |-> t.seen \cup {messageId},
        totals |->
          [inputTokens |-> t.totals.inputTokens + Fld(Val(usage), "input_tokens"),
           outputTokens |-> t.totals.outputTokens + Fld(Val(usage), "output_tokens"),
           cacheReadInputTokens |->
             t.totals.cacheReadInputTokens + Fld(Val(usage), "cache_read_input_tokens"),
           cacheCreationInputTokens |->
             t.totals.cacheCreationInputTokens
               + Fld(Val(usage), "cache_creation_input_tokens")]]

\* Mutant: the authoritative record is added to the running totals.
SetTotals_Add(t, usage) ==
  [t EXCEPT !.totals =
     [inputTokens |-> @.inputTokens + Fld(usage, "input_tokens"),
      outputTokens |-> @.outputTokens + Fld(usage, "output_tokens"),
      cacheReadInputTokens |-> @.cacheReadInputTokens + Fld(usage, "cache_read_input_tokens"),
      cacheCreationInputTokens |->
        @.cacheCreationInputTokens + Fld(usage, "cache_creation_input_tokens")]]

\* Mutant: a field missing from the record keeps its old total.
SetTotals_KeepMissing(t, usage) ==
  [t EXCEPT !.totals =
     [inputTokens |->
        IF "input_tokens" \in DOMAIN usage THEN usage.input_tokens ELSE @.inputTokens,
      outputTokens |->
        IF "output_tokens" \in DOMAIN usage THEN usage.output_tokens ELSE @.outputTokens,
      cacheReadInputTokens |->
        IF "cache_read_input_tokens" \in DOMAIN usage
        THEN usage.cache_read_input_tokens ELSE @.cacheReadInputTokens,
      cacheCreationInputTokens |->
        IF "cache_creation_input_tokens" \in DOMAIN usage
        THEN usage.cache_creation_input_tokens ELSE @.cacheCreationInputTokens]]

\* Mutant: overwriting the totals also forgets the counted message ids.
SetTotals_ClearSeen(t, usage) ==
  [seen |-> {},
   totals |->
     [inputTokens |-> Fld(usage, "input_tokens"),
      outputTokens |-> Fld(usage, "output_tokens"),
      cacheReadInputTokens |-> Fld(usage, "cache_read_input_tokens"),
      cacheCreationInputTokens |-> Fld(usage, "cache_creation_input_tokens")]]

SetTotals(t, usage) ==
  [t EXCEPT !.totals =
     [inputTokens |-> Fld(usage, "input_tokens"),
      outputTokens |-> Fld(usage, "output_tokens"),
      cacheReadInputTokens |-> Fld(usage, "cache_read_input_tokens"),
      cacheCreationInputTokens |-> Fld(usage, "cache_creation_input_tokens")]]

GetStats(t) == t.totals

\* Mutant: the totals are zeroed but the de-dup set is kept.
Reset_KeepSeen(t) == [seen |-> t.seen, totals |-> ZeroUsage]

Reset(t) == [seen |-> {}, totals |-> ZeroUsage]

(***************************************************************************)
(* Raw SDK messages.  Every message is the record                          *)
(*   type       "assistant" | "result" | "stream_event" | "system"         *)
(*   sessionId  None, EmptyStr or an identity                              *)
(*   event      optional [type, delta: optional [type, text: optional]]    *)
(*   message    optional [id: optional, usage: optional, content: optional *)
(*              sequence of blocks]                                        *)
(*   stop_reason, usage   optional (result messages)                       *)
(* and a content block is [type, text, id, name, input: optional           *)
(* [todos: optional sequence of [content, status], arg]].                  *)
(***************************************************************************)
Block(type, text, id, name, input) ==
  [type |-> type, text |-> text, id |-> id, name |-> name, input |-> input]

TextBlock(text) == Block("text", text, "", "", Absent)
ToolUse(id, name, input) == Block("tool_use", <<>>, id, name, input)
Input(todos, arg) == [todos |-> todos, arg |-> arg]
\* `{}`: what extractToolCalls substitutes for a missing input
EmptyInput == Input(Absent, "")

RawMsg(type, sessionId, event, message, stop_reason, usage) ==
  [type |-> type, sessionId |-> sessionId, event |-> event,
   message |-> message, stop_reason |-> stop_reason, usage |-> usage]

isAssistant(message) == message.type = "assistant"
isResult(message) == message.type = "result"

getSessionId(message) == message.sessionId

getMessageId(message) ==
  IF IsPresent(message.message) THEN Val(message.message).id ELSE Absent

getUsage(message) ==
  IF IsPresent(message.message) THEN Val(message.message).usage ELSE Absent

getContentBlocks(message) ==
  IF IsPresent(message.message) /\ IsPresent(Val(message.message).content)
  THEN Val(Val(message.message).content) ELSE <<>>

RECURSIVE FilterSeq(_, _)
\* blocks of the given type, in order
FilterSeq(blocks, type) ==
  IF blocks = <<>> THEN <<>>
  ELSE (IF Head(blocks).type = type THEN <<Head(blocks)>> ELSE <<>>)
         \o FilterSeq(Tail(blocks), type)

RECURSIVE ConcatText(_)
ConcatText(blocks) ==
  IF blocks = <<>> THEN <<>> ELSE Head(blocks).text \o ConcatText(Tail(blocks))

extractText(message) == ConcatText(FilterSeq(getContentBlocks(message), "text"))

ToolCallOf(block) ==
  [id |-> block.id, name |-> block.name,
   input |-> IF IsPresent(block.input) THEN Val(block.input) ELSE EmptyInput]

extractToolCalls(message) ==
  LET uses == FilterSeq(getContentBlocks(message), "tool_use")
  IN [i \in 1..Len(uses) |-> ToolCallOf(uses[i])]

(***************************************************************************)
(* Todos.                                                                  *)
(***************************************************************************)
\* Mutant: the alias "done" is not recognized.
normalizeTodoStatus_NoAlias(status) ==
  IF status = "completed" THEN "completed"
  ELSE IF status = "in_progress" THEN "in_progress"
  ELSE "pending"

\* Mutant: an unrecognized status is passed through.
normalizeTodoStatus_PassThrough(status) ==
  IF status = "completed" \/ status = "done" THEN "completed" ELSE status

normalizeTodoStatus(status) ==
  IF status = "completed" \/ status = "done" THEN "completed"
  ELSE IF status = "in_progress" THEN "in_progress"
  ELSE "pending"

RECURSIVE extractTodos_FirstOnly(_)
\* Mutant: the scan stops at the first TodoWrite invocation, list or not.
extractTodos_FirstOnly(contentBlocks) ==
  IF contentBlocks = <<>> THEN Absent
  ELSE LET block == Head(contentBlocks) IN
       IF block.type = "tool_use" /\ block.name = "TodoWrite"
       THEN IF IsPresent(block.input) /\ IsPresent(Val(block.input).todos)
            THEN LET todos == Val(Val(block.input).todos) IN
                 Some([i \in 1..Len(todos) |->
                         [content |-> todos[i].content,
                          status |-> normalizeTodoStatus(todos[i].status)]])
            ELSE Absent
       ELSE extractTodos_FirstOnly(Tail(contentBlocks))

RECURSIVE extractTodos(_)
\* null is Absent; a list (possibly empty) is Some(list)
extractTodos(contentBlocks) ==
  IF contentBlocks = <<>> THEN Absent
  ELSE LET block == Head(contentBlocks) IN
       IF /\ block.type = "tool_use"
          /\ block.name = "TodoWrite"
          /\ IsPresent(block.input)
          /\ IsPresent(Val(block.input).todos)
       THEN LET todos == Val(Val(block.input).todos) IN
            Some([i \in 1..Len(todos) |->
                    [content |-> todos[i].content,
                     status |-> normalizeTodoStatus(todos[i].status)]])
       ELSE extractTodos(Tail(contentBlocks))

CountStatus(todos, status) ==
  Cardinality({i \in 1..Len(todos) : todos[i].status = status})

getTodoProgress(todos) ==
  [todos |-> todos, total |-> Len(todos),
   completed |-> CountStatus(todos, "completed"),
   inProgress |-> CountStatus(todos, "in_progress"),
   pending |-> CountStatus(todos, "pending")]

emptyProgress ==
  [todos |-> <<>>, total |-> 0, completed |-> 0, inProgress |-> 0, pending |-> 0]

(***************************************************************************)
(* streamQuery.  The generator's locals are the record                     *)
(*   fullText, sessionId, stopReason, latestTodos, allToolCalls, tracker   *)
(* and one loop iteration maps them and a raw message to the new locals    *)
(* and the events yielded during the iteration.                            *)
(***************************************************************************)
Event(type, sessionId, text, toolCall, todos, usage, result) ==
  [type |-> type, sessionId |-> sessionId, text |-> text, toolCall |-> toolCall,
   todos |-> todos, usage |-> usage, result |-> result]

SessionEvent(sessionId) == Event("session", sessionId, <<>>, Absent, Absent, Absent, Absent)
TextDelta(text) == Event("text_delta", None, text, Absent, Absent, Absent, Absent)
ToolCallEvent(toolCall) == Event("tool_call", None, <<>>, Some(toolCall), Absent, Absent, Absent)
TodoUpdate(todos) == Event("todo_update", None, <<>>, Absent, Some(todos), Absent, Absent)
UsageEvent(usage) == Event("usage", None, <<>>, Absent, Absent, Some(usage), Absent)
DoneEvent(result) == Event("done", None, <<>>, Absent, Absent, Absent, Some(result))
ErrorEvent == Event("error", None, <<>>, Absent, Absent, Absent, Absent)

NewQuery ==
  [fullText |-> <<>>, sessionId |-> None, stopReason |-> "null",
   latestTodos |-> emptyProgress, allToolCalls |-> <<>>, tracker |-> NewTracker]

Step(st, out) == [st |-> st, out |-> out]

\* Mutant: a session event for every message that carries any sessionId.
SessionPart_Always(st, message) ==
  LET sid == getSessionId(message) IN
  IF sid # None
  THEN Step([st EXCEPT !.sessionId = sid], <<SessionEvent(sid)>>)
  ELSE Step(st, <<>>)

\* const sid = getSessionId(message); if (sid && sid !== sessionId) {...}
SessionPart(st, message) ==
  LET sid == getSessionId(message) IN
  IF Truthy(sid) /\ sid # st.sessionId
  THEN Step([st EXCEPT !.sessionId = sid], <<SessionEvent(sid)>>)
  ELSE Step(st, <<>>)

\* Mutant: the delta is yielded but not added to fullText.
DeltaPart_NoAccumulate(st, message) ==
  IF /\ IsPresent(message.event)
     /\ Val(message.event).type = "content_block_delta"
     /\ IsPresent(Val(message.event).delta)
     /\ Val(Val(message.event).delta).type = "text_delta"
     /\ IsPresent(Val(Val(message.event).delta).text)
  THEN Step(st, <<TextDelta(Val(Val(Val(message.event).delta).text))>>)
  ELSE Step(st, <<>>)

\* if (message.type === "stream_event") { ... continue; }
DeltaPart(st, message) ==
  IF /\ IsPresent(message.event)
     /\ Val(message.event).type = "content_block_delta"
     /\ IsPresent(Val(message.event).delta)
     /\ Val(Val(message.event).delta).type = "text_delta"
     /\ IsPresent(Val(Val(message.event).delta).text)
  THEN LET text == Val(Val(Val(message.event).delta).text) IN
       Step([st EXCEPT !.fullText = @ \o text], <<TextDelta(text)>>)
  ELSE Step(st, <<>>)

\* Mutant: the usage event carries the message's own record, not the totals.
AssistantUsage_PerMessage(st, message) ==
  LET msgId == getMessageId(message) IN
  IF IsPresent(msgId)
  THEN LET t == Track(st.tracker, Val(msgId), getUsage(message)) IN
       Step([st EXCEPT !.tracker = t],
            <<UsageEvent(IF IsPresent(getUsage(message))
                         THEN GetStats(SetTotals(NewTracker, Val(getUsage(message))))
                         ELSE ZeroUsage)>>)
  ELSE Step(st, <<>>)

\* msgId: tracker.track(...); yield usage
AssistantUsage(st, message) ==
  LET msgId == getMessageId(message) IN
  IF IsPresent(msgId)
  THEN LET t == Track(st.tracker, Val(msgId), getUsage(message)) IN
       Step([st EXCEPT !.tracker = t], <<UsageEvent(GetStats(t))>>)
  ELSE Step(st, <<>>)

\* Mutant: only the first tool invocation of a message is pushed and yielded.
AssistantTools_FirstOnly(st, message) ==
  LET all == extractToolCalls(message)
      tools == IF all = <<>> THEN <<>> ELSE <<Head(all)>>
  IN Step([st EXCEPT !.allToolCalls = @ \o tools],
          [i \in 1..Len(tools) |-> ToolCallEvent(tools[i])])

\* for (const toolCall of tools) { allToolCalls.push(toolCall); yield tool_call }
AssistantTools(st, message) ==
  LET tools == extractToolCalls(message) IN
  Step([st EXCEPT !.allToolCalls = @ \o tools],
       [i \in 1..Len(tools) |-> ToolCallEvent(tools[i])])

\* Mutant: the new items are appended to the items known so far.
AssistantTodos_Patch(st, message) ==
  LET todos == extractTodos(getContentBlocks(message)) IN
  IF IsPresent(todos)
  THEN LET merged == getTodoProgress(st.latestTodos.todos \o Val(todos)) IN
       Step([st EXCEPT !.latestTodos = merged], <<TodoUpdate(merged)>>)
  ELSE Step(st, <<>>)

\* const todos = extractTodos(blocks); if (todos) {...; yield todo_update}
AssistantTodos(st, message) ==
  LET todos == extractTodos(getContentBlocks(message)) IN
  IF IsPresent(todos)
  THEN Step([st EXCEPT !.latestTodos = getTodoProgress(Val(todos))],
            <<TodoUpdate(getTodoProgress(Val(todos)))>>)
  ELSE Step(st, <<>>)

\* Mutant: the usage event is yielded after the tool calls and the todos.
AssistantPart_UsageLast(st, message) ==
  IF ~isAssistant(message) THEN Step(st, <<>>)
  ELSE LET b == AssistantTools(st, message)
           c == AssistantTodos(b.st, message)
           a == AssistantUsage(c.st, message)
       IN Step(a.st, b.out \o c.out \o a.out)

\* if (isAssistant(message)) { usage; tool calls; todos }
AssistantPart(st, message) ==
  IF ~isAssistant(message) THEN Step(st, <<>>)
  ELSE LET a == AssistantUsage(st, message)
           b == AssistantTools(a.st, message)
           c == AssistantTodos(b.st, message)
       IN Step(c.st, a.out \o b.out \o c.out)

\* Mutant: the totals of the result message are taken over silently.
ResultPart_SilentTotals(st, message) ==
  IF ~isResult(message) THEN Step(st, <<>>)
  ELSE LET st1 == [st EXCEPT !.stopReason =
                     IF IsPresent(message.stop_reason)
                     THEN Val(message.stop_reason) ELSE "null"]
       IN IF IsPresent(message.usage)
          THEN LET t == SetTotals(st1.tracker, Val(message.usage)) IN
               Step([st1 EXCEPT !.tracker = t], <<>>)
          ELSE Step(st1, <<>>)

\* if (isResult(message)) { stopReason; setTotals; yield usage }
ResultPart(st, message) ==
  IF ~isResult(message) THEN Step(st, <<>>)
  ELSE LET st1 == [st EXCEPT !.stopReason =
                     IF IsPresent(message.stop_reason)
                     THEN Val(message.stop_reason) ELSE "null"]
       IN IF IsPresent(message.usage)
          THEN LET t == SetTotals(st1.tracker, Val(message.usage)) IN
               Step([st1 EXCEPT !.tracker = t], <<UsageEvent(GetStats(t))>>)
          ELSE Step(st1, <<>>)

\* One iteration of `for await (const message of q)` in streamQuery.
StreamMessage(st, message) ==
  LET s == SessionPart(st, message) IN
  IF message.type = "stream_event"
  THEN LET d == DeltaPart(s.st, message) IN Step(d.st, s.out \o d.out)
  ELSE LET a == AssistantPart(s.st, message)
           r == ResultPart(a.st, message)
       IN Step(r.st, s.out \o a.out \o r.out)

QueryResult(st) ==
  [text |-> st.fullText, sessionId |-> st.sessionId, stopReason |-> st.stopReason,
   usage |-> GetStats(st.tracker), todos |-> st.latestTodos,
   toolCalls |-> st.allToolCalls]

\* Mutant: done is yielded only when a result message set the stop reason.
StreamEnd_OnlyAfterResult(st) ==
  IF st.stopReason # "null" THEN <<DoneEvent(QueryResult(st))>> ELSE <<>>

\* After the loop: yield { type: "done", result }
StreamEnd(st) == <<DoneEvent(QueryResult(st))>>

(***************************************************************************)
(* runQuery: one iteration of its drain loop over the same locals.         *)
(***************************************************************************)
\* Mutant: the totals of the result message are not taken over.
RunMessage_NoSetTotals(st, message) ==
  LET sid == getSessionId(message)
      st1 == IF Truthy(sid) THEN [st EXCEPT !.sessionId = sid] ELSE st
      msgId == getMessageId(message)
      todos == extractTodos(getContentBlocks(message))
      st2 == IF ~isAssistant(message) THEN st1
             ELSE [st1 EXCEPT
                     !.fullText = @ \o extractText(message),
                     !.tracker = IF IsPresent(msgId)
                                 THEN Track(@, Val(msgId), getUsage(message))
                                 ELSE @,
                     !.allToolCalls = @ \o extractToolCalls(message),
                     !.latestTodos = IF IsPresent(todos)
                                     THEN getTodoProgress(Val(todos)) ELSE @]
  IN IF ~isResult(message) THEN st2
     ELSE [st2 EXCEPT
             !.stopReason = IF IsPresent(message.stop_reason)
                            THEN Val(message.stop_reason) ELSE "null",
             !.tracker = @]

RunMessage(st, message) ==
  LET sid == getSessionId(message)
      st1 == IF Truthy(sid) THEN [st EXCEPT !.sessionId = sid] ELSE st
      msgId == getMessageId(message)
      todos == extractTodos(getContentBlocks(message))
      st2 == IF ~isAssistant(message) THEN st1
             ELSE [st1 EXCEPT
                     !.fullText = @ \o extractText(message),
                     !.tracker = IF IsPresent(msgId)
                                 THEN Track(@, Val(msgId), getUsage(message))
                                 ELSE @,
                     !.allToolCalls = @ \o extractToolCalls(message),
                     !.latestTodos = IF IsPresent(todos)
                                     THEN getTodoProgress(Val(todos)) ELSE @]
  IN IF ~isResult(message) THEN st2
     ELSE [st2 EXCEPT
             !.stopReason = IF IsPresent(message.stop_reason)
                            THEN Val(message.stop_reason) ELSE "null",
             !.tracker = IF IsPresent(message.usage)
                         THEN SetTotals(@, Val(message.usage)) ELSE @]

(***************************************************************************)
(* streamQueryAsAgUi, the AG-UI transcoder.  Its locals are the record     *)
(*   messageStarted, messageSegment                                        *)
(* (messageId is fixed for the run, so an identity is told by the segment  *)
(* alone), and handleEvent maps them and one domain event to the new       *)
(* locals and the AG-UI events yielded for it.                             *)
(***************************************************************************)
\* { type: "error"; error: string } of the StreamEvent union
ErrorEventOf(error) ==
  [f \in (DOMAIN ErrorEvent) \cup {"error"} |->
     IF f = "error" THEN error ELSE ErrorEvent[f]]

NoMessage == <<"msg", -1>>

AgEvent(type, messageId, delta, toolCallId, name, value, message) ==
  [type |-> type, messageId |-> messageId, delta |-> delta,
   toolCallId |-> toolCallId, name |-> name, value |-> value,
   message |-> message]

\* encode(): the SSE event is named by the type and carries the event
encode(event) == [event |-> event.type, data |-> event]

RunStarted ==
  encode(AgEvent("RUN_STARTED", NoMessage, <<>>, "", "", Absent, ""))

NewTranscoder == [messageStarted |-> FALSE, messageSegment |-> 0]

currentMessageId(st) == <<"msg", st.messageSegment>>

closeTextMessage(st) ==
  IF st.messageStarted
  THEN Step([st EXCEPT !.messageStarted = FALSE],
            <<encode(AgEvent("TEXT_MESSAGE_END", currentMessageId(st), <<>>,
                             "", "", Absent, ""))>>)
  ELSE Step(st, <<>>)

\* case "text_delta"
TextDeltaPart(st, event) ==
  LET st1 == [st EXCEPT !.messageStarted = TRUE]
      start == IF st.messageStarted THEN <<>>
               ELSE <<encode(AgEvent("TEXT_MESSAGE_START", currentMessageId(st1),
                                     <<>>, "", "", Absent, ""))>>
  IN Step(st1,
          start \o <<encode(AgEvent("TEXT_MESSAGE_CONTENT", currentMessageId(st1),
                                    event.text, "", "", Absent, ""))>>)

\* Mutant: the open text message is not closed before the tool call.
ToolCallPart_NoClose(st, event) ==
  LET tc == Val(event.toolCall)
  IN Step([st EXCEPT !.messageSegment = @ + 1],
          << encode(AgEvent("TOOL_CALL_START", currentMessageId(st), <<>>,
                            tc.id, tc.name, Absent, "")),
             encode(AgEvent("TOOL_CALL_ARGS", NoMessage, <<>>,
                            tc.id, "", Some(tc.input), "")),
             encode(AgEvent("TOOL_CALL_END", NoMessage, <<>>,
                            tc.id, "", Absent, "")) >>)

\* case "tool_call"
ToolCallPart(st, event) ==
  LET c == closeTextMessage(st)
      tc == Val(event.toolCall)
  IN Step([c.st EXCEPT !.messageSegment = @ + 1],
          c.out \o
          << encode(AgEvent("TOOL_CALL_START", currentMessageId(c.st), <<>>,
                            tc.id, tc.name, Absent, "")),
             encode(AgEvent("TOOL_CALL_ARGS", NoMessage, <<>>,
                            tc.id, "", Some(tc.input), "")),
             encode(AgEvent("TOOL_CALL_END", NoMessage, <<>>,
                            tc.id, "", Absent, "")) >>)

\* case "todo_update", "usage", "session"
CustomPart(st, event) ==
  LET value == CASE event.type = "todo_update" -> event.todos
                 [] event.type = "usage" -> event.usage
                 [] OTHER -> Some(event.sessionId)
  IN Step(st, <<encode(AgEvent("CUSTOM", NoMessage, <<>>, "", event.type,
                               value, ""))>>)

\* Mutant: the run is finished before the result is reported.
DonePart_FinishFirst(st, event) ==
  LET c == closeTextMessage(st)
  IN Step(c.st,
          c.out \o
          << encode(AgEvent("RUN_FINISHED", NoMessage, <<>>, "", "", Absent, "")),
             encode(AgEvent("CUSTOM", NoMessage, <<>>, "", "done_result",
                            event.result, "")) >>)

\* case "done"
DonePart(st, event) ==
  LET c == closeTextMessage(st)
  IN Step(c.st,
          c.out \o
          << encode(AgEvent("CUSTOM", NoMessage, <<>>, "", "done_result",
                            event.result, "")),
             encode(AgEvent("RUN_FINISHED", NoMessage, <<>>, "", "", Absent, "")) >>)

\* case "error": the switch is left, the loop over the source is not
ErrorPart(st, event) ==
  LET c == closeTextMessage(st)
  IN Step(c.st,
          c.out \o <<encode(AgEvent("RUN_ERROR", NoMessage, <<>>, "", "",
                                    Absent, event.error))>>)

handleEvent(st, event) ==
  CASE event.type = "text_delta" -> TextDeltaPart(st, event)
    [] event.type = "tool_call" -> ToolCallPart(st, event)
    [] event.type \in {"todo_update", "usage", "session"} -> CustomPart(st, event)
    [] event.type = "done" -> DonePart(st, event)
    [] event.type = "error" -> ErrorPart(st, event)
    [] OTHER -> Step(st, <<>>)

\* catch (error): close the open message, RUN_ERROR, return
TranscoderCatch(st, message) ==
  LET c == closeTextMessage(st)
  IN Step(c.st,
          c.out \o <<encode(AgEvent("RUN_ERROR", NoMessage, <<>>, "", "",
                                    Absent, message))>>)

(***************************************************************************)
(* SessionStore.  The store of one conversation is the record              *)
(*   dir    whether the session directory exists                           *)
(*   log    events.jsonl: the records appended, in file order              *)
(*   meta   workspace.yaml: Absent, or the metadata it holds               *)
(*   clock  the number of timestamps taken so far (new Date())             *)
(* A call on the store is the record                                       *)
(*   op     "create", "appendEvent", "title" (the getSession - generate -  *)
(*          updateTitle chain of the handlers) or "updateTitle"            *)
(*   event  the record an appendEvent call appends                         *)
(*   pc     the await the call is suspended at, or "done"                  *)
(*   local  the metadata the call has read into its local `meta`           *)
(* Each await of a method is one step; the steps of the calls in flight    *)
(* interleave freely, the file operations being served by a thread pool.   *)
(***************************************************************************)
NewStore == [dir |-> FALSE, log |-> <<>>, meta |-> Absent, clock |-> 0]

Metadata(title, status, createdAt, updatedAt) ==
  [title |-> title, status |-> status, createdAt |-> createdAt,
   updatedAt |-> updatedAt]

\* the synchronous start of a call: up to its first await
StoreCallStart(st, op, event) ==
  [op |-> op, event |-> event, local |-> Absent,
   pc |-> CASE op \in {"create", "appendEvent"} ->
                 IF st.dir THEN (IF op = "create" THEN "write" ELSE "append")
                 ELSE "mkdir"
            [] op = "title" -> "check"
            [] OTHER -> "read"]

\* create(id): mkdir, then writeWorkspace of fresh metadata
create(st, c) ==
  CASE c.pc = "mkdir" ->
         [st |-> [st EXCEPT !.dir = TRUE], c |-> [c EXCEPT !.pc = "write"]]
    [] OTHER ->
         [st |-> [st EXCEPT !.meta = Some(Metadata("", "active", st.clock + 1,
                                                   st.clock + 1)),
                            !.clock = @ + 1],
          c |-> [c EXCEPT !.pc = "done"]]

\* Mutant: the record is written at the head of the file.
appendEvent_AtHead(st, c) ==
  CASE c.pc = "mkdir" ->
         [st |-> [st EXCEPT !.dir = TRUE], c |-> [c EXCEPT !.pc = "append"]]
    [] c.pc = "append" ->
         [st |-> [st EXCEPT !.log = <<c.event>> \o @],
          c |-> [c EXCEPT !.pc = "read"]]
    [] c.pc = "read" ->
         [st |-> st,
          c |-> IF IsPresent(st.meta)
                THEN [c EXCEPT !.pc = "write", !.local = st.meta]
                ELSE [c EXCEPT !.pc = "done"]]
    [] OTHER ->
         [st |-> [st EXCEPT !.meta = Some([Val(c.local) EXCEPT
                                             !.updatedAt = st.clock + 1]),
                            !.clock = @ + 1],
          c |-> [c EXCEPT !.pc = "done"]]

\* appendEvent(id, event): mkdir, appendFile, getSession, writeWorkspace
appendEvent(st, c) ==
  CASE c.pc = "mkdir" ->
         [st |-> [st EXCEPT !.dir = TRUE], c |-> [c EXCEPT !.pc = "append"]]
    [] c.pc = "append" ->
         [st |-> [st EXCEPT !.log = Append(@, c.event)],
          c |-> [c EXCEPT !.pc = "read"]]
    [] c.pc = "read" ->
         [st |-> st,
          c |-> IF IsPresent(st.meta)
                THEN [c EXCEPT !.pc = "write", !.local = st.meta]
                ELSE [c EXCEPT !.pc = "done"]]
    [] OTHER ->
         [st |-> [st EXCEPT !.meta = Some([Val(c.local) EXCEPT
                                             !.updatedAt = st.clock + 1]),
                            !.clock = @ + 1],
          c |-> [c EXCEPT !.pc = "done"]]

\* updateTitle(id, title): getSession, writeWorkspace
updateTitle(st, c, title) ==
  CASE c.pc = "read" ->
         [st |-> st,
          c |-> IF IsPresent(st.meta)
                THEN [c EXCEPT !.pc = "write", !.local = st.meta]
                ELSE [c EXCEPT !.pc = "done"]]
    [] OTHER ->
         [st |-> [st EXCEPT !.meta = Some([Val(c.local) EXCEPT
                                             !.title = title,
                                             !.updatedAt = st.clock + 1]),
                            !.clock = @ + 1],
          c |-> [c EXCEPT !.pc = "done"]]

\* the title generated for a conversation
GeneratedTitle == "T"

\* sessionStore.getSession(sid).then((meta) => { if (meta && !meta.title)
\*   generateSessionTitle(...).then((title) => updateTitle(sid, title)) })
TitleChain(st, c) ==
  IF c.pc = "check"
  THEN [st |-> st,
        c |-> IF IsPresent(st.meta) /\ Val(st.meta).title = ""
              THEN [c EXCEPT !.op = "updateTitle", !.pc = "read"]
              ELSE [c EXCEPT !.pc = "done"]]
  ELSE updateTitle(st, c, GeneratedTitle)

\* updateStatus(id, status): getSession, writeWorkspace
updateStatus(st, c, status) ==
  CASE c.pc = "read" ->
         [st |-> st,
          c |-> IF IsPresent(st.meta)
                THEN [c EXCEPT !.pc = "write", !.local = st.meta]
                ELSE [c EXCEPT !.pc = "done"]]
    [] OTHER ->
         [st |-> [st EXCEPT !.meta = Some([Val(c.local) EXCEPT
                                             !.status = status,
                                             !.updatedAt = st.clock + 1]),
                            !.clock = @ + 1],
          c |-> [c EXCEPT !.pc = "done"]]

\* one step of a call in flight
StoreStep(st, c) ==
  CASE c.op = "create" -> create(st, c)
    [] c.op = "appendEvent" -> appendEvent(st, c)
    [] c.op = "title" -> TitleChain(st, c)
    [] c.op = "updateStatus" -> updateStatus(st, c, c.event[1])
    [] OTHER -> updateTitle(st, c, IF c.event = <<>> THEN GeneratedTitle
                                   ELSE c.event[1])

RECURSIVE StoreAwait(_, _)
\* `await` of a call with no other call in flight: the store it leaves
StoreAwait(st, c) ==
  IF c.pc = "done" THEN st
  ELSE LET r == StoreStep(st, c) IN StoreAwait(r.st, r.c)

\* getEvents(id): the lines of events.jsonl that are not blank, parsed
getEvents(st) == SelectSeq(st.log, LAMBDA line : line # <<>>)

(***************************************************************************)
(* The API turn handlers.  A turn is the record                            *)
(*   status   "idle", "running", "done" (stream ended), "error" (stream    *)
(*            raised), "failed" (prepare raised) or "rejected" (400)       *)
(*   route    "query", "stream" or "agui"                                  *)
(*   resume, fork   resumeSessionId and forkSession of the request         *)
(*   env      env.envId: Explicit for a request with cwd                   *)
(*   tid      the identity the runtime gives the conversation of the turn  *)
(*   q        locals of runQuery / streamQuery                             *)
(*   currentSessionId, sessionCreated   locals of the SSE callback         *)
(*   sse      types of the events written to the response                  *)
(*   maps     the mapSession calls the handler made: <<identity, envId>>   *)
(*   sessions number of session events the handler received                *)
(*   n        raw messages consumed                                        *)
(*   fresh    whether prepare allocated a new environment in this turn     *)
(*   http     status of the response once it is decided, 0 before          *)
(*   prepares number of sessionManager.prepare calls the handler made      *)
(*   ingested whether sessionManager.ingestFiles was called                *)
(*   tx       locals of the turn's AG-UI transcoder                        *)
(*   fullText text the SSE callback has accumulated                        *)
(*   rec      the calls the handler made on the transcript store           *)
(*   sseError the message of the error event written, if one was           *)
(*   thrown   what the stream raised, if it did                            *)
(* A handler step works on the pair [mgr, t] of manager and turn.          *)
(***************************************************************************)
NoTurn ==
  [status |-> "idle", route |-> "none", resume |-> None, fork |-> FALSE,
   env |-> None, tid |-> None, q |-> NewQuery, currentSessionId |-> None,
   sessionCreated |-> FALSE, sse |-> <<>>, maps |-> <<>>, sessions |-> 0,
   n |-> 0, fresh |-> FALSE,
   http |-> 0, prepares |-> 0, ingested |-> FALSE, tx |-> NewTranscoder,
   fullText |-> <<>>, rec |-> <<>>, sseError |-> Absent, thrown |-> Absent]

\* sessionManager.mapSession(sid, env.envId), as made by a handler
HandlerMap(h, sid) ==
  [mgr |-> MapSession(h.mgr, sid, h.t.env),
   t |-> [h.t EXCEPT !.maps = Append(@, <<sid, h.t.env>>)]]

\* body.prompt, the content of the recorded user message
UserPrompt == <<"prompt">>

\* A call on the transcript store: create(id), or appendEvent(id, event)
\* with the event's type and data; awaited tells whether the handler waits
\* for the call before it goes on.
StoreCall(op, id, type, content, stopReason, toolCall, awaited) ==
  [op |-> op, id |-> id, type |-> type, content |-> content,
   stopReason |-> stopReason, toolCall |-> toolCall, awaited |-> awaited]

\* if (!sessionCreated) { await sessionStore.create(sid) }
\* await recordUserMessage(sid)
RecordUserMessage(t, sid) ==
  [t EXCEPT
     !.sessionCreated = TRUE,
     !.rec = (IF t.sessionCreated THEN @
              ELSE Append(@, StoreCall("create", sid, "", <<>>, "", Absent, TRUE)))
             \o <<StoreCall("appendEvent", sid, "user.message", UserPrompt,
                            "", Absent, TRUE)>>]

\* sessionStore.appendEvent(currentSessionId, { type: "tool.call" }).catch()
RecordToolCall(t, toolCall) ==
  IF t.currentSessionId # None
  THEN [t EXCEPT !.rec = Append(@, StoreCall("appendEvent", t.currentSessionId,
                                             "tool.call", <<>>, "",
                                             Some(toolCall), FALSE))]
  ELSE t

\* if (currentSessionId) { appendEvent assistant.message; appendEvent session.done }
RecordCompletion(t, stopReason) ==
  IF t.currentSessionId # None
  THEN [t EXCEPT !.rec = @ \o
          << StoreCall("appendEvent", t.currentSessionId, "assistant.message",
                       t.fullText, "", Absent, FALSE),
             StoreCall("appendEvent", t.currentSessionId, "session.done",
                       <<>>, stopReason, Absent, FALSE) >>]
  ELSE t

\* /stream: if (event.type === "session" && env.envId !== "__explicit__")
StreamOnSession(h, event) ==
  IF event.type = "session" /\ h.t.env # Explicit
  THEN LET m == HandlerMap(h, event.sessionId) IN
       [m EXCEPT !.t = RecordUserMessage(
                         [@ EXCEPT !.currentSessionId = event.sessionId],
                         event.sessionId)]
  ELSE h

\* /stream: fullText += event.text, and the tool.call record
StreamOnContent(h, event) ==
  CASE event.type = "text_delta" ->
         [h EXCEPT !.t.fullText = @ \o event.text]
    [] event.type = "tool_call" ->
         [h EXCEPT !.t = RecordToolCall(@, Val(event.toolCall))]
    [] OTHER -> h

\* Mutant: the done event maps the identity whether or not it is known yet.
StreamOnDone_Always(h, event) ==
  IF event.type # "done" THEN h
  ELSE LET sid == Val(event.result).sessionId
           a == IF sid # None /\ h.t.env # Explicit
                THEN LET m == HandlerMap(h, sid) IN
                     [m EXCEPT !.t = RecordUserMessage(
                                       [@ EXCEPT !.currentSessionId = sid], sid)]
                ELSE h
       IN [a EXCEPT !.t = RecordCompletion(@, Val(event.result).stopReason)]

\* /stream: if (event.type === "done") { if (!currentSessionId && ...) ... }
StreamOnDone(h, event) ==
  IF event.type # "done" THEN h
  ELSE LET sid == Val(event.result).sessionId
           a == IF h.t.currentSessionId = None /\ sid # None /\ h.t.env # Explicit
                THEN LET m == HandlerMap(h, sid) IN
                     [m EXCEPT !.t = RecordUserMessage(
                                       [@ EXCEPT !.currentSessionId = sid], sid)]
                ELSE h
       IN [a EXCEPT !.t = RecordCompletion(@, Val(event.result).stopReason)]

\* /stream: the body of `for await (const event of streamQuery(queryConfig))`
StreamOnEvent(h, event) ==
  LET a == StreamOnSession(h, event)
      b == StreamOnContent(a, event)
      c == StreamOnDone(b, event)
  IN [c EXCEPT !.t.sse = Append(@, event.type),
               !.t.sessions = IF event.type = "session" THEN @ + 1 ELSE @]

\* the name of a CUSTOM event, "" for any other event
CustomName(eventData) ==
  IF eventData.type = "CUSTOM" THEN eventData.name ELSE ""

\* /ag-ui: CUSTOM "session": const sid = eventData.value?.sessionId; if (sid)
AgUiOnSession(h, eventData) ==
  IF CustomName(eventData) = "session" /\ Truthy(Val(eventData.value))
  THEN LET sid == Val(eventData.value)
           m == HandlerMap(h, sid)
       IN [m EXCEPT !.t = RecordUserMessage(
                            [@ EXCEPT !.currentSessionId = sid], sid)]
  ELSE h

\* /ag-ui: fullText += eventData.delta ?? "", and the tool.call record,
\* which carries the call's id and name and an empty input
AgUiOnContent(h, eventData) ==
  CASE eventData.type = "TEXT_MESSAGE_CONTENT" ->
         [h EXCEPT !.t.fullText = @ \o eventData.delta]
    [] eventData.type = "TOOL_CALL_START" ->
         [h EXCEPT !.t = RecordToolCall(@, [id |-> eventData.toolCallId,
                                            name |-> eventData.name,
                                            input |-> EmptyInput])]
    [] OTHER -> h

\* /ag-ui: CUSTOM "done_result": if (!currentSessionId && result?.sessionId)
AgUiOnDone(h, eventData) ==
  IF CustomName(eventData) # "done_result" THEN h
  ELSE LET result == Val(eventData.value)
           sid == result.sessionId
           a == IF h.t.currentSessionId = None /\ sid # None
                THEN LET m == HandlerMap(h, sid) IN
                     [m EXCEPT !.t = RecordUserMessage(
                                       [@ EXCEPT !.currentSessionId = sid], sid)]
                ELSE h
       IN [a EXCEPT !.t = RecordCompletion(@, result.stopReason)]

\* /ag-ui: the body of `for await (const sseEvent of streamQueryAsAgUi(...))`
AgUiOnSse(h, sseEvent) ==
  LET a == AgUiOnSession(h, sseEvent.data)
      b == AgUiOnContent(a, sseEvent.data)
      c == AgUiOnDone(b, sseEvent.data)
  IN [c EXCEPT !.t.sse = Append(@, sseEvent.event),
               !.t.sessions = IF CustomName(sseEvent.data) = "session"
                              THEN @ + 1 ELSE @]

RECURSIVE AgUiOnAll(_, _)
\* the /ag-ui loop body applied to AG-UI events, in order
AgUiOnAll(h, sseEvents) ==
  IF sseEvents = <<>> THEN h
  ELSE AgUiOnAll(AgUiOnSse(h, Head(sseEvents)), Tail(sseEvents))

\* /ag-ui: a domain event goes through the transcoder of the turn, and the
\* handler sees what the transcoder yields for it
AgUiOnEvent(h, event) ==
  LET r == handleEvent(h.t.tx, event)
  IN AgUiOnAll([h EXCEPT !.t.tx = r.st], r.out)

RECURSIVE OnEvents(_, _)
\* the handler of the turn's route applied to the events, in order
OnEvents(h, evs) ==
  IF evs = <<>> THEN h
  ELSE OnEvents(IF h.t.route = "agui" THEN AgUiOnEvent(h, Head(evs))
                ELSE StreamOnEvent(h, Head(evs)),
                Tail(evs))

\* What was thrown: an Error with its message, or some other value.
Thrown == {[isError |-> TRUE, message |-> "boom"],
           [isError |-> FALSE, message |-> ""]}

\* error instanceof Error ? error.message : "Unknown error"
ErrorMessage(thrown) ==
  IF thrown.isError THEN thrown.message ELSE "Unknown error"

\* Mutant: the failure of the stream is swallowed.
StreamCatch_Silent(h, thrown) == h

\* /stream: catch (error) { writeSSE({ event: "error", ... }) }
StreamCatch(h, thrown) ==
  [h EXCEPT !.t.sse = Append(@, "error"),
            !.t.sseError = Some(ErrorMessage(thrown))]

\* /ag-ui: the stream raises inside the transcoder, whose catch block
\* yields RUN_ERROR to the handler's loop
AgUiCatch(h, thrown) ==
  LET r == TranscoderCatch(h.t.tx, ErrorMessage(thrown))
      a == AgUiOnAll([h EXCEPT !.t.tx = r.st], r.out)
  IN [a EXCEPT !.t.sseError = Some(ErrorMessage(thrown))]

\* /query: if (result.sessionId && env.envId !== "__explicit__") mapSession
QueryOnResult(h) ==
  IF h.t.q.sessionId # None /\ h.t.env # Explicit
  THEN HandlerMap(h, h.t.q.sessionId)
  ELSE h

(***************************************************************************)
(* The raw messages the agent runtime is taken to produce: partial deltas  *)
(* (text and non-text), assistant messages with and without id, usage,     *)
(* content, tool invocations and todo lists, result messages with and      *)
(* without usage, and a system message; each with or without a             *)
(* conversation identity.                                                  *)
(***************************************************************************)
S1 == <<"sid", 1>>
S2 == <<"sid", 2>>

DeltaEvent(type, text) ==
  Some([type |-> "content_block_delta",
        delta |-> Some([type |-> type, text |-> text])])

AssistantBody(id, usage, content) ==
  Some([id |-> id, usage |-> usage, content |-> content])

TodoInput(todos) == Some(Input(Some(todos), ""))

Bodies ==
  { RawMsg("stream_event", None, DeltaEvent("text_delta", Some(<<"a">>)), Absent, Absent, Absent),
    RawMsg("stream_event", None, DeltaEvent("text_delta", Some(<<"b">>)), Absent, Absent, Absent),
    RawMsg("stream_event", None, DeltaEvent("text_delta", Some(<<>>)), Absent, Absent, Absent),
    RawMsg("stream_event", None, DeltaEvent("input_json_delta", Absent), Absent, Absent, Absent),
    RawMsg("assistant", None, Absent,
           AssistantBody(Some("m1"),
             Some([input_tokens |-> 2, output_tokens |-> 1,
                   cache_read_input_tokens |-> 1]),
             Some(<< TextBlock(<<"a">>),
                     ToolUse("t1", "Bash", Some(Input(Absent, "ls"))),
                     ToolUse("t2", "TodoWrite",
                       TodoInput(<< [content |-> "A", status |-> "done"],
                                    [content |-> "B", status |-> "in_progress"] >>)) >>)),
           Absent, Absent),
    RawMsg("assistant", None, Absent,
           AssistantBody(Some("m1"), Some([input_tokens |-> 2, output_tokens |-> 1]),
             Some(<< ToolUse("t3", "Read", Absent) >>)),
           Absent, Absent),
    RawMsg("assistant", None, Absent,
           AssistantBody(Absent, Some([input_tokens |-> 1, cache_read_input_tokens |-> 1]),
             Some(<< ToolUse("t4", "TodoWrite", TodoInput(<< >>)) >>)),
           Absent, Absent),
    RawMsg("assistant", None, Absent,
           AssistantBody(Some("m2"), Absent, Absent), Absent, Absent),
    RawMsg("assistant", None, Absent,
           AssistantBody(Some("m3"), Some([output_tokens |-> 2]), Absent),
           Absent, Absent),
    RawMsg("result", None, Absent, Absent, Some("end_turn"),
           Some([input_tokens |-> 3, output_tokens |-> 1,
                 cache_creation_input_tokens |-> 1])),
    RawMsg("result", None, Absent, Absent, Absent, Absent),
    RawMsg("system", None, Absent, Absent, Absent, Absent) }

IsTextDelta(m) ==
  m.type = "stream_event" /\ IsPresent(Val(Val(m.event).delta).text)

RawMessages ==
  {[b EXCEPT !.sessionId = sid] : b \in Bodies, sid \in {None, S1}}
    \cup {[b EXCEPT !.sessionId = sid] :
            b \in {x \in Bodies : IsTextDelta(x)}, sid \in {EmptyStr, S2}}

\* The bodies the runtime produces in a turn through the API: a text delta,
\* an assistant message with tool invocations, a result message.
ApiBodies ==
  {b \in Bodies :
     \/ IsTextDelta(b) /\ Val(Val(Val(b.event).delta).text) = <<"a">>
     \/ b.type = "assistant" /\ Len(getContentBlocks(b)) = 3
     \/ b.type = "result" /\ IsPresent(b.usage)}

VARIABLES
  mgr,          \* the singleton session manager of the process
  lastCall,     \* the manager call that produced this state, and its result
  prepared,     \* per identity: envIds its prepare calls returned since the last destroy
  assoc,        \* per identity: envId associated after such a prepare, no destroy since
  destroyedEnv, \* per identity: the env its destroy released, until the identity is mapped again
  calls,        \* number of manager calls made
  sq,           \* locals of the running streamQuery generator
  events,       \* events the generator has yielded so far
  pc,           \* "idle", or the generator "running", "done" or "raised"
  lastStep,     \* the raw message of the last loop iteration and what it yielded
  nmsgs,        \* number of raw messages consumed
  rq,           \* locals of runQuery draining the same raw stream
  lastRaw,      \* the last raw message the stream delivered, if any
  turn,         \* the turn the API is handling, or the last one it handled
  issued,       \* number of conversation identities the runtime has issued
  ranIn,        \* per identity: the env of the /query or /stream turn that revealed it
  turns,        \* number of turns started
  tracker,      \* a usage tracker driven directly through its four methods
  tlog,         \* the track calls made on it since creation or the last reset
  overwritten,  \* whether setTotals was called on it since creation or the last reset
  preReset,     \* the message ids it had counted when it was last reset
  lastOp,       \* the last method called on it, its arguments and the tracker before
  ops,          \* number of method calls made on it
  blocks,       \* content fragments of a message handed to the todo extractor
  extracted,    \* what extractTodos returned for them (Absent is null)
  progress,     \* getTodoProgress of the returned list, if one was returned
  tpc,          \* "idle", "building" the fragments, or "extracted"
  tx,           \* locals of the running AG-UI transcoder
  agIn,         \* domain events the transcoder has taken from its source
  agOut,        \* AG-UI events the transcoder has yielded so far
  agPc,         \* "idle", or the transcoder "created", "running" or "returned"
  agAt,         \* how many AG-UI events had been yielded before the last domain event
  store,        \* the transcript store of one conversation
  stCalls,      \* the calls a handler has made on it in a turn, in order of issue
  stClient,     \* where the handler of the turn is: "idle", "start", "creating",
                \* "recording", "streaming" or "finished"
  lastTitle,    \* the title of the last updateTitle call that completed, if any
  exLog,        \* the execute calls made on an Azure manager, with their outcomes
  srLog         \* the stop-reason codes classified so far, with what was answered

callVars == <<lastCall, prepared, assoc, destroyedEnv, calls>>
mgrVars == <<mgr, callVars>>
streamVars == <<sq, events, pc, lastStep, nmsgs, rq, lastRaw>>
apiVars == <<turn, issued, ranIn, turns>>
trackVars == <<tracker, tlog, overwritten, preReset, lastOp, ops>>
todoVars == <<blocks, extracted, progress, tpc>>
agVars == <<tx, agIn, agOut, agPc, agAt>>
storeVars == <<store, stCalls, stClient, lastTitle>>
libVars == <<exLog, srLog>>
extraVars == <<agVars, storeVars, libVars>>
pureVars == <<trackVars, todoVars, extraVars>>
vars == <<mgrVars, streamVars, apiVars, pureVars>>

NoCall ==
  [op |-> "none", arg |-> None, envId |-> None, created |-> FALSE,
   fresh |-> FALSE, raised |-> FALSE, changed |-> FALSE,
   known |-> FALSE, assocPre |-> None, destroyedPre |-> None,
   prevOp |-> "none", prevArg |-> None, prevChanged |-> FALSE]

\* Is the argument known to the manager: mapped, or naming a backing resource?
Known(m, id) ==
  id \in DOMAIN m.sessionToEnv \/ id \in m.dirs \/ id \in m.containers

Call(op, arg, envId, created, fresh, raised, changed, assocPre, destroyedPre) ==
  [op |-> op, arg |-> arg, envId |-> envId, created |-> created,
   fresh |-> fresh, raised |-> raised, changed |-> changed,
   known |-> Known(mgr, arg), assocPre |-> assocPre, destroyedPre |-> destroyedPre,
   prevOp |-> lastCall.op, prevArg |-> lastCall.arg,
   prevChanged |-> lastCall.changed]

NoneOf(S) == [x \in S |-> None]

NoStep == [msg |-> Absent, out |-> <<>>]

\* No streamQuery generator exists.
StreamIdle ==
  /\ sq = NewQuery
  /\ events = <<>>
  /\ pc = "idle"
  /\ lastStep = NoStep
  /\ nmsgs = 0
  /\ rq = NewQuery
  /\ lastRaw = Absent

\* No turn has been handled.
ApiIdle ==
  /\ turn = NoTurn
  /\ issued = 0
  /\ ranIn = NoneOf(SessionIds)
  /\ turns = 0

NoOp == [op |-> "none", id |-> "", usage |-> Absent, before |-> NewTracker,
         prev |-> "none"]

\* The directly driven tracker has just been created.
TrackerIdle ==
  /\ tracker = NewTracker
  /\ tlog = <<>>
  /\ overwritten = FALSE
  /\ preReset = {}
  /\ lastOp = NoOp
  /\ ops = 0

\* The todo extractor is not being exercised on its own.
TodosIdle ==
  /\ blocks = <<>>
  /\ extracted = Absent
  /\ progress = Absent
  /\ tpc = "idle"

\* No library function is being exercised on its own.
AgUiIdle ==
  /\ tx = NewTranscoder
  /\ agIn = <<>>
  /\ agOut = <<>>
  /\ agPc = "idle"
  /\ agAt = 0

\* No library function beyond the tracker and the todo extractor is exercised.
StoreIdle ==
  /\ store = NewStore
  /\ stCalls = <<>>
  /\ stClient = "idle"
  /\ lastTitle = Absent

\* Neither execute nor the stop-reason helpers are exercised.
LibIdle ==
  /\ exLog = <<>>
  /\ srLog = <<>>

ExtraIdle == AgUiIdle /\ StoreIdle /\ LibIdle

\* No library function is being exercised on its own.
PureIdle == TrackerIdle /\ TodosIdle /\ ExtraIdle

\* No manager call has been observed.
MgrFresh ==
  /\ lastCall = NoCall
  /\ prepared = [x \in SessionIds |-> {}]
  /\ assoc = NoneOf(SessionIds)
  /\ destroyedEnv = NoneOf(SessionIds)
  /\ calls = 0

MgrInit ==
  /\ mgr \in {NewManager(s) : s \in Strategies}
  /\ StreamIdle
  /\ ApiIdle
  /\ PureIdle
  /\ lastCall = NoCall
  /\ prepared = [x \in SessionIds |-> {}]
  /\ assoc = NoneOf(SessionIds)
  /\ destroyedEnv = NoneOf(SessionIds)
  /\ calls = 0

\* prepare(sessionId?) called on the manager
MgrPrepare ==
  \E sessionId \in SessionIds \cup {None}, runOk \in BOOLEAN :
    LET r == Prepare(mgr, sessionId, runOk) IN
    /\ calls < MaxCalls
    /\ DrawsUUID(mgr, sessionId) => mgr.uuids < MaxEnvs
    /\ mgr' = r.m
    /\ lastCall' = Call("prepare", sessionId, r.envId, r.created, r.fresh,
                        r.raised, r.m # mgr,
                        IF sessionId = None THEN None ELSE assoc[sessionId],
                        IF sessionId = None THEN None ELSE destroyedEnv[sessionId])
    /\ prepared' = IF sessionId # None /\ ~r.raised
                   THEN [prepared EXCEPT ![sessionId] = @ \cup {r.envId}]
                   ELSE prepared
    /\ calls' = calls + 1
    /\ UNCHANGED <<assoc, destroyedEnv, streamVars, apiVars, pureVars>>

\* mapSession(sdkSessionId, envId) called with an envId a prepare returned
MgrMapSession ==
  \E sdkSessionId \in SessionIds, envId \in EnvIds :
    /\ calls < MaxCalls
    /\ envId[2] <= mgr.uuids
    /\ mgr' = MapSession(mgr, sdkSessionId, envId)
    /\ lastCall' = Call("mapSession", sdkSessionId, envId, FALSE, FALSE, FALSE,
                        mgr' # mgr, None, None)
    /\ assoc' = [assoc EXCEPT ![sdkSessionId] =
                   IF envId \in prepared[sdkSessionId] THEN envId ELSE None]
    /\ destroyedEnv' = [destroyedEnv EXCEPT ![sdkSessionId] = None]
    /\ calls' = calls + 1
    /\ UNCHANGED <<prepared, streamVars, apiVars, pureVars>>

\* destroy(sessionId) called with a conversation identity or an envId
MgrDestroy ==
  \E sessionId \in SessionIds \cup EnvIds, stopOk \in BOOLEAN :
    LET r == Destroy(mgr, sessionId, stopOk) IN
    /\ calls < MaxCalls
    /\ mgr' = r.m
    /\ lastCall' = Call("destroy", sessionId, MapGet(mgr.sessionToEnv, sessionId),
                        FALSE, FALSE, r.raised, r.m # mgr, None, None)
    /\ prepared' = [x \in SessionIds |-> {}]
    /\ assoc' = NoneOf(SessionIds)
    /\ destroyedEnv' =
         IF sessionId \in SessionIds /\ ~r.raised
         THEN [destroyedEnv EXCEPT ![sessionId] = MapGet(mgr.sessionToEnv, sessionId)]
         ELSE destroyedEnv
    /\ calls' = calls + 1
    /\ UNCHANGED <<streamVars, apiVars, pureVars>>

MgrNext == MgrPrepare \/ MgrMapSession \/ MgrDestroy

SpecMgr == MgrInit /\ [][MgrNext]_vars

(***************************************************************************)
(* streamQuery over a raw message stream of at most MaxMsgs messages, and   *)
(* runQuery draining the same raw stream beside it.                        *)
(***************************************************************************)
StreamInit ==
  /\ mgr = NewManager("local")
  /\ MgrFresh
  /\ ApiIdle
  /\ PureIdle
  /\ sq = NewQuery
  /\ events = <<>>
  /\ pc = "running"
  /\ lastStep = NoStep
  /\ nmsgs = 0
  /\ rq = NewQuery
  /\ lastRaw = Absent

\* The raw stream delivers a message: one iteration of the for-await loop.
StreamConsume ==
  \E message \in RawMessages :
    LET r == StreamMessage(sq, message) IN
    /\ pc = "running"
    /\ nmsgs < MaxMsgs
    /\ sq' = r.st
    /\ events' = events \o r.out
    /\ lastStep' = [msg |-> Some(message), out |-> r.out]
    /\ nmsgs' = nmsgs + 1
    /\ rq' = RunMessage(rq, message)
    /\ lastRaw' = Some(message)
    /\ UNCHANGED <<pc, mgrVars, apiVars, pureVars>>

\* The raw stream ends: the loop exits and done is yielded.
StreamFinish ==
  /\ pc = "running"
  /\ events' = events \o StreamEnd(sq)
  /\ pc' = "done"
  /\ lastStep' = [msg |-> Absent, out |-> StreamEnd(sq)]
  /\ UNCHANGED <<sq, nmsgs, rq, lastRaw, mgrVars, apiVars, pureVars>>

\* The raw stream raises: the exception leaves the generator uncaught.
StreamRaise ==
  /\ pc = "running"
  /\ pc' = "raised"
  /\ lastStep' = NoStep
  /\ UNCHANGED <<sq, events, nmsgs, rq, lastRaw, mgrVars, apiVars, pureVars>>

StreamNext == StreamConsume \/ StreamFinish \/ StreamRaise

SpecStream == StreamInit /\ [][StreamNext]_vars

(***************************************************************************)
(* The API process: POST /query, /stream and /ag-ui turns, one at a time,  *)
(* and DELETE /sessions/:id at any moment.  The agent runtime gives the    *)
(* conversation of a turn one identity: the resumed one when a             *)
(* conversation is resumed without forkSession, a newly issued one         *)
(* otherwise; each raw message of the turn carries it or none.             *)
(***************************************************************************)
ApiInit ==
  /\ mgr \in {NewManager(s) : s \in Strategies}
  /\ MgrFresh
  /\ StreamIdle
  /\ ApiIdle
  /\ PureIdle

IssuedIds == {<<"sid", i>> : i \in 1..issued}

\* the identities a /query or /stream step mapped now run in the turn's env
NoteRan(t, before, after) ==
  [x \in SessionIds |->
     IF \E i \in (Len(before) + 1)..Len(after) : after[i][1] = x
     THEN (IF t.route = "agui" THEN None ELSE t.env)
     ELSE ranIn[x]]

\* A request arrives: it is parsed and validated, the environment is
\* resolved, attached files are validated and ingested, and the stream is
\* opened.  files tells what the request attaches: nothing, files that pass
\* validateFiles ("ok") or a file that does not ("bad").
Request(maxTurns, prompts, attachments) ==
  \E route \in {"query", "stream", "agui"}, resume \in IssuedIds \cup {None},
     fork \in BOOLEAN, cwd \in BOOLEAN, runOk \in BOOLEAN,
     prompt \in prompts, files \in attachments :
    LET newId == resume = None \/ fork
        r == Prepare(mgr, resume, runOk)
        t == [NoTurn EXCEPT
                !.route = route, !.resume = resume, !.fork = fork,
                !.tid = IF newId THEN <<"sid", issued + 1>> ELSE resume,
                !.currentSessionId = resume,
                !.sessionCreated = resume # None,
                !.sse = IF route = "agui" THEN <<RunStarted.event>> ELSE <<>>]
        ingests == files # "none" /\ ~cwd
    IN
    /\ turn.status # "running"
    /\ turns < maxTurns
    /\ route = "agui" => ~cwd /\ ~fork
    /\ route = "query" => files = "none"
    /\ resume = None => ~fork
    /\ ~prompt => resume = None /\ ~cwd /\ runOk /\ files = "none"
    /\ prompt /\ newId => issued < MaxSessions
    /\ prompt /\ ~cwd /\ DrawsUUID(mgr, resume) => mgr.uuids < MaxEnvs
    /\ cwd => runOk
    /\ turns' = turns + 1
    /\ IF ~prompt
       THEN /\ mgr' = mgr
            /\ turn' = [NoTurn EXCEPT !.status = "rejected", !.route = route,
                                      !.http = 400]
            /\ issued' = issued
       ELSE IF cwd
       THEN /\ mgr' = mgr
            /\ turn' = [t EXCEPT !.status = "running", !.env = Explicit]
            /\ issued' = IF newId THEN issued + 1 ELSE issued
       ELSE IF r.raised
       THEN /\ mgr' = r.m
            /\ turn' = [t EXCEPT !.status = "failed", !.prepares = 1,
                                  !.http = 500, !.sse = <<>>]
            /\ issued' = issued
       ELSE IF ingests /\ files = "bad"
       THEN /\ mgr' = r.m
            /\ turn' = [t EXCEPT !.status = "rejected", !.env = r.envId,
                                  !.fresh = r.fresh, !.prepares = 1,
                                  !.http = 400, !.sse = <<>>]
            /\ issued' = issued
       ELSE /\ mgr' = r.m
            /\ turn' = [t EXCEPT !.status = "running", !.env = r.envId,
                                  !.fresh = r.fresh, !.prepares = 1,
                                  !.ingested = ingests]
            /\ issued' = IF newId THEN issued + 1 ELSE issued
    /\ UNCHANGED <<ranIn, callVars, streamVars, pureVars>>

\* Requests with a prompt and without attachments.
ApiRequest == Request(MaxTurns, {TRUE}, {"none"})

\* The runtime delivers a raw message of the turn.
Message(maxMsgs) ==
  \E body \in ApiBodies, sid \in {None, turn.tid} :
    LET message == [body EXCEPT !.sessionId = sid] IN
    /\ turn.status = "running"
    /\ turn.n < maxMsgs
    /\ IF turn.route = "query"
       THEN /\ turn' = [turn EXCEPT !.q = RunMessage(@, message), !.n = @ + 1]
            /\ UNCHANGED <<mgr, ranIn>>
       ELSE LET r == StreamMessage(turn.q, message)
                h == OnEvents([mgr |-> mgr,
                               t |-> [turn EXCEPT !.q = r.st, !.n = @ + 1]],
                              r.out)
            IN /\ turn' = h.t
               /\ mgr' = h.mgr
               /\ ranIn' = NoteRan(turn, turn.maps, h.t.maps)
    /\ UNCHANGED <<issued, turns, callVars, streamVars, pureVars>>

ApiMessage == Message(MaxTurnMsgs)

\* The raw stream of the turn ends: the result is returned / done is handled.
ApiEnd ==
  LET h == IF turn.route = "query"
           THEN QueryOnResult([mgr |-> mgr, t |-> turn])
           ELSE OnEvents([mgr |-> mgr, t |-> turn], StreamEnd(turn.q))
  IN
  /\ turn.status = "running"
  /\ turn' = [h.t EXCEPT !.status = "done"]
  /\ mgr' = h.mgr
  /\ ranIn' = NoteRan(turn, turn.maps, h.t.maps)
  /\ UNCHANGED <<issued, turns, callVars, streamVars, pureVars>>

\* The raw stream of the turn raises: 500 / an error event is written.
Raise(values) ==
  \E thrown \in values :
    LET h == [mgr |-> mgr, t |-> turn]
        c == CASE turn.route = "stream" -> StreamCatch(h, thrown)
               [] turn.route = "agui" -> AgUiCatch(h, thrown)
               [] OTHER -> [h EXCEPT !.t.http = 500]
    IN
    /\ turn.status = "running"
    /\ turn' = [c.t EXCEPT !.status = "error", !.thrown = Some(thrown)]
    /\ UNCHANGED <<mgr, issued, ranIn, turns, callVars, streamVars, pureVars>>

\* The stream raises an Error.
ApiRaise == Raise({v \in Thrown : v.isError})

\* DELETE /sessions/:id with a conversation identity or an envId
ApiDestroy ==
  \E id \in IssuedIds \cup {e \in EnvIds : e[2] <= mgr.uuids}, stopOk \in BOOLEAN :
    /\ mgr' = Destroy(mgr, id, stopOk).m
    /\ mgr' # mgr
    /\ ranIn' = [x \in SessionIds |-> IF x = id THEN None ELSE ranIn[x]]
    /\ UNCHANGED <<turn, issued, turns, callVars, streamVars, pureVars>>

ApiNext == ApiRequest \/ ApiMessage \/ ApiEnd \/ ApiRaise \/ ApiDestroy

SpecApi == ApiInit /\ [][ApiNext]_vars

(***************************************************************************)
(* The turn handlers in detail: requests that fail validation or attach    *)
(* files, streams that raise any value, and longer turns.  The process is  *)
(* fresh, or has served one /stream turn that revealed the identity S1.    *)
(***************************************************************************)
\* the manager after sessionManager.prepare() and mapSession(S1, env.envId)
AfterFirstTurn(strategy) ==
  LET r == Prepare(NewManager(strategy), None, TRUE)
  IN [mgr |-> MapSession(r.m, S1, r.envId), envId |-> r.envId]

TurnInit ==
  /\ MgrFresh
  /\ StreamIdle
  /\ PureIdle
  /\ turn = NoTurn
  /\ turns = 0
  /\ \/ /\ mgr \in {NewManager(s) : s \in Strategies}
        /\ issued = 0
        /\ ranIn = NoneOf(SessionIds)
     \/ \E s \in Strategies :
          /\ mgr = AfterFirstTurn(s).mgr
          /\ issued = 1
          /\ ranIn = [x \in SessionIds |->
                        IF x = S1 THEN AfterFirstTurn(s).envId ELSE None]

\* Any request: with or without a prompt, with or without attachments.
TurnRequest == Request(MaxDetailTurns, BOOLEAN, {"none", "ok", "bad"})

TurnMessage == Message(MaxDetailMsgs)

\* The stream raises an Error or any other value.
TurnRaise == Raise(Thrown)

TurnNext == TurnRequest \/ TurnMessage \/ ApiEnd \/ TurnRaise

SpecTurn == TurnInit /\ [][TurnNext]_vars


(***************************************************************************)
(* A usage tracker driven directly: any sequence of at most MaxTrackOps    *)
(* track, setTotals and reset calls, with message ids and raw usage        *)
(* records (or no record) from small sets.                                 *)
(***************************************************************************)
MessageIds == {"m1", "m2", "m3"}

UsageRecords ==
  { [input_tokens |-> 2, output_tokens |-> 1],
    [input_tokens |-> 1, cache_read_input_tokens |-> 3,
     cache_creation_input_tokens |-> 1],
    [output_tokens |-> 2] }

TrackerInit ==
  /\ mgr = NewManager("local")
  /\ MgrFresh
  /\ StreamIdle
  /\ ApiIdle
  /\ TrackerIdle
  /\ TodosIdle
  /\ ExtraIdle

\* the ids of the logged track calls that carried a usage record
Counted(log) == {log[i][1] : i \in {j \in 1..Len(log) : IsPresent(log[j][2])}}

\* tracker.track(messageId, usage)
TrackerTrack ==
  \E messageId \in MessageIds, usage \in {Absent} \cup {Some(u) : u \in UsageRecords} :
    /\ ops < MaxTrackOps
    /\ tracker' = Track(tracker, messageId, usage)
    /\ tlog' = Append(tlog, <<messageId, usage>>)
    /\ lastOp' = [op |-> "track", id |-> messageId, usage |-> usage,
                  before |-> tracker, prev |-> lastOp.op]
    /\ ops' = ops + 1
    /\ UNCHANGED <<overwritten, preReset, todoVars, extraVars, mgrVars, streamVars, apiVars>>

\* tracker.setTotals(usage)
TrackerSetTotals ==
  \E usage \in UsageRecords :
    /\ ops < MaxTrackOps
    /\ tracker' = SetTotals(tracker, usage)
    /\ overwritten' = TRUE
    /\ lastOp' = [op |-> "setTotals", id |-> "", usage |-> Some(usage),
                  before |-> tracker, prev |-> lastOp.op]
    /\ ops' = ops + 1
    /\ UNCHANGED <<tlog, preReset, todoVars, extraVars, mgrVars, streamVars, apiVars>>

\* tracker.reset()
TrackerReset ==
  /\ ops < MaxTrackOps
  /\ tracker' = Reset(tracker)
  /\ tlog' = <<>>
  /\ overwritten' = FALSE
  /\ preReset' = Counted(tlog)
  /\ lastOp' = [op |-> "reset", id |-> "", usage |-> Absent,
                before |-> tracker, prev |-> lastOp.op]
  /\ ops' = ops + 1
  /\ UNCHANGED <<todoVars, extraVars, mgrVars, streamVars, apiVars>>

TrackerNext == TrackerTrack \/ TrackerSetTotals \/ TrackerReset

SpecTracker == TrackerInit /\ [][TrackerNext]_vars

(***************************************************************************)
(* The todo extractor applied to the content of one message: at most       *)
(* MaxBlocks fragments from a small set, then extractTodos and, for a      *)
(* non-null result, getTodoProgress.                                       *)
(***************************************************************************)
ContentBlocks ==
  { Block("text", <<"a">>, "", "TodoWrite",
          TodoInput(<< [content |-> "T", status |-> "pending"] >>)),
    ToolUse("t1", "Bash", Some(Input(Absent, "ls"))),
    ToolUse("t2", "TodoWrite",
      TodoInput(<< [content |-> "A", status |-> "done"],
                   [content |-> "B", status |-> "in_progress"] >>)),
    ToolUse("t3", "TodoWrite",
      TodoInput(<< [content |-> "C", status |-> "blocked"],
                   [content |-> "D", status |-> "pending"],
                   [content |-> "E", status |-> "completed"] >>)),
    ToolUse("t4", "TodoWrite", TodoInput(<< >>)),
    ToolUse("t5", "TodoWrite", Some(Input(Absent, "x"))),
    ToolUse("t6", "TodoWrite", Absent) }

TodosInit ==
  /\ mgr = NewManager("local")
  /\ MgrFresh
  /\ StreamIdle
  /\ ApiIdle
  /\ TrackerIdle
  /\ ExtraIdle
  /\ blocks = <<>>
  /\ extracted = Absent
  /\ progress = Absent
  /\ tpc = "building"

\* the message content gets one more fragment
TodosAddBlock ==
  \E block \in ContentBlocks :
    /\ tpc = "building"
    /\ Len(blocks) < MaxBlocks
    /\ blocks' = Append(blocks, block)
    /\ UNCHANGED <<extracted, progress, tpc, trackVars, extraVars, mgrVars, streamVars, apiVars>>

\* const todos = extractTodos(blocks); if (todos) getTodoProgress(todos)
TodosExtract ==
  LET todos == extractTodos(blocks) IN
  /\ tpc = "building"
  /\ extracted' = todos
  /\ progress' = IF IsPresent(todos) THEN Some(getTodoProgress(Val(todos))) ELSE Absent
  /\ tpc' = "extracted"
  /\ UNCHANGED <<blocks, trackVars, extraVars, mgrVars, streamVars, apiVars>>

TodosNext == TodosAddBlock \/ TodosExtract

SpecTodos == TodosInit /\ [][TodosNext]_vars

(***************************************************************************)
(* The AG-UI transcoder over a source of domain events.  The source is an  *)
(* async generator of StreamEvent: it yields events, yields `done` only as *)
(* its last event (as streamQuery does), reports a failure either by       *)
(* raising or by an `error` event, and is free to go on after an `error`   *)
(* event for as long as its consumer keeps asking.                         *)
(***************************************************************************)
AgToolCall == [id |-> "t1", name |-> "Read", input |-> EmptyInput]

DomainEvents ==
  { TextDelta(<<"a">>), TextDelta(<<"b">>), ToolCallEvent(AgToolCall),
    SessionEvent(S1), UsageEvent(ZeroUsage), ErrorEventOf("boom"),
    DoneEvent(QueryResult(NewQuery)) }

\* the source has yielded its last event
SourceDone == agIn # <<>> /\ agIn[Len(agIn)].type = "done"

AgUiInit ==
  /\ mgr = NewManager("local")
  /\ MgrFresh
  /\ StreamIdle
  /\ ApiIdle
  /\ TrackerIdle
  /\ TodosIdle
  /\ StoreIdle
  /\ LibIdle
  /\ tx = NewTranscoder
  /\ agIn = <<>>
  /\ agOut = <<>>
  /\ agPc = "created"
  /\ agAt = 0

\* the first next(): RUN_STARTED is yielded before the source is asked
AgUiStart ==
  /\ agPc = "created"
  /\ agOut' = <<RunStarted>>
  /\ agPc' = "running"
  /\ UNCHANGED <<tx, agIn, agAt, storeVars, libVars, trackVars, todoVars, mgrVars, streamVars, apiVars>>

\* one iteration of `for await (const event of streamQuery(config))`
AgUiConsume ==
  /\ agPc = "running"
  /\ ~SourceDone
  /\ Len(agIn) < MaxAgEvents
  /\ \E event \in DomainEvents :
       LET r == handleEvent(tx, event) IN
         /\ tx' = r.st
         /\ agIn' = Append(agIn, event)
         /\ agOut' = agOut \o r.out
         /\ agAt' = Len(agOut)
  /\ UNCHANGED <<agPc, storeVars, libVars, trackVars, todoVars, mgrVars, streamVars, apiVars>>

\* the source returns: the loop and the generator end
AgUiSourceEnd ==
  /\ agPc = "running"
  /\ \E i \in 1..Len(agIn) : agIn[i].type \in {"done", "error"}
  /\ agPc' = "returned"
  /\ UNCHANGED <<tx, agIn, agOut, agAt, storeVars, libVars, trackVars, todoVars, mgrVars, streamVars, apiVars>>

\* the source raises: the catch block runs and the generator returns
AgUiSourceRaise ==
  /\ agPc = "running"
  /\ ~SourceDone
  /\ LET r == TranscoderCatch(tx, "boom") IN
       /\ tx' = r.st
       /\ agOut' = agOut \o r.out
  /\ agPc' = "returned"
  /\ UNCHANGED <<agIn, agAt, storeVars, libVars, trackVars, todoVars, mgrVars, streamVars, apiVars>>

AgUiNext == AgUiStart \/ AgUiConsume \/ AgUiSourceEnd \/ AgUiSourceRaise

SpecAgUi == AgUiInit /\ [][AgUiNext]_vars

(***************************************************************************)
(* The transcript store under the calls of one /stream or /ag-ui turn.     *)
(* The handler awaits create and the user.message append, and fires the    *)
(* tool.call, assistant.message and session.done appends and the title     *)
(* chain without waiting for them.  The conversation is new, or resumed    *)
(* with a store session that has no title or an older one, or resumed      *)
(* without a store session (one begun through /query).                     *)
(***************************************************************************)
OlderTitle == "T0"

StoreInit ==
  /\ mgr = NewManager("local")
  /\ MgrFresh
  /\ StreamIdle
  /\ ApiIdle
  /\ TrackerIdle
  /\ TodosIdle
  /\ AgUiIdle
  /\ LibIdle
  /\ stCalls = <<>>
  /\ lastTitle = Absent
  /\ \/ stClient = "start" /\ store = NewStore
     \/ stClient = "resumed" /\ store = NewStore
     \/ /\ stClient = "resumed"
        /\ \E title \in {"", OlderTitle} :
             store = [NewStore EXCEPT !.dir = TRUE,
                                      !.meta = Some(Metadata(title, "active", 0, 0))]

\* the record of a kind the handler appends as its n-th call
Record(type) == <<type, Len(stCalls) + 1>>

\* every call the handler awaits has returned
AwaitedDone == \A i \in 1..Len(stCalls) : stCalls[i].pc = "done"

\* first sight of the identity: await create (a new conversation only)
StoreCreate ==
  /\ stClient = "start"
  /\ stCalls' = Append(stCalls, StoreCallStart(store, "create", <<>>))
  /\ stClient' = "creating"
  /\ UNCHANGED <<store, lastTitle, agVars, libVars, trackVars, todoVars, mgrVars, streamVars, apiVars>>

\* await recordUserMessage(sid)
StoreUserMessage ==
  /\ stClient = "resumed" \/ (stClient = "creating" /\ AwaitedDone)
  /\ stCalls' = Append(stCalls,
                       StoreCallStart(store, "appendEvent", Record("user.message")))
  /\ stClient' = "recording"
  /\ UNCHANGED <<store, lastTitle, agVars, libVars, trackVars, todoVars, mgrVars, streamVars, apiVars>>

\* the handler is in its loop, past the awaited calls
InLoop ==
  stClient = "streaming" \/ (stClient = "recording" /\ stCalls[Len(stCalls)].pc = "done")

ToolCallsMade ==
  Cardinality({i \in 1..Len(stCalls) : stCalls[i].event # <<>>
                                        /\ stCalls[i].event[1] = "tool.call"})

\* a tool_call event: appendEvent(tool.call), not awaited
StoreToolCall ==
  /\ InLoop
  /\ ToolCallsMade < MaxToolCalls
  /\ stCalls' = Append(stCalls,
                       StoreCallStart(store, "appendEvent", Record("tool.call")))
  /\ stClient' = "streaming"
  /\ UNCHANGED <<store, lastTitle, agVars, libVars, trackVars, todoVars, mgrVars, streamVars, apiVars>>

\* the done event: appendEvent(assistant.message), appendEvent(session.done)
\* and the title chain, none awaited
Completion(title) ==
  /\ InLoop
  /\ stCalls' = stCalls \o
       << StoreCallStart(store, "appendEvent", Record("assistant.message")),
          StoreCallStart(store, "appendEvent",
                         <<"session.done", Len(stCalls) + 2>>),
          StoreCallStart(store, "title", title) >>
  /\ stClient' = "finished"
  /\ UNCHANGED <<store, lastTitle, agVars, libVars, trackVars, todoVars, mgrVars, streamVars, apiVars>>

StoreCompletion == Completion(<<>>)

\* a call in flight resumes from the await it is suspended at
StoreProgress ==
  \E i \in 1..Len(stCalls) :
    LET r == StoreStep(store, stCalls[i]) IN
    /\ stCalls[i].pc # "done"
    /\ store' = r.st
    /\ stCalls' = [stCalls EXCEPT ![i] = r.c]
    /\ lastTitle' = IF stCalls[i].op = "updateTitle" /\ stCalls[i].pc = "write"
                    THEN Some(IF stCalls[i].event = <<>> THEN GeneratedTitle
                              ELSE stCalls[i].event[1])
                    ELSE lastTitle
    /\ UNCHANGED <<stClient, agVars, libVars, trackVars, todoVars, mgrVars, streamVars, apiVars>>

StoreNext ==
  StoreCreate \/ StoreUserMessage \/ StoreToolCall \/ StoreCompletion \/ StoreProgress

SpecStore == StoreInit /\ [][StoreNext]_vars

(***************************************************************************)
(* The transcript store over several turns of one conversation through     *)
(* /stream: the first turn creates the session, and a later turn may be    *)
(* served while calls the earlier one fired are still in flight.  Each     *)
(* turn's title generation answers with a title of its own.                *)
(***************************************************************************)
TitleInit ==
  /\ mgr = NewManager("local")
  /\ MgrFresh
  /\ StreamIdle
  /\ ApiIdle
  /\ TrackerIdle
  /\ TodosIdle
  /\ AgUiIdle
  /\ LibIdle
  /\ store = NewStore
  /\ stCalls = <<>>
  /\ stClient = "start"
  /\ lastTitle = Absent

\* the title chains fired so far: one per completed turn
TitleCalls == {i \in 1..Len(stCalls) : stCalls[i].op \in {"title", "updateTitle"}}

InFlight == {i \in 1..Len(stCalls) : stCalls[i].pc # "done"}

\* generateSessionTitle(userPrompt, fullText) of the n-th turn
TitleOfTurn(n) ==
  CASE n = 1 -> "T1"
    [] n = 2 -> "T2"
    [] n = 3 -> "T3"
    [] OTHER -> "Tn"

\* the done event of a turn
TitleCompletion == Completion(<<TitleOfTurn(Cardinality(TitleCalls) + 1)>>)

\* POST /stream { resumeSessionId } for the same conversation
StoreNextTurn ==
  /\ stClient = "finished"
  /\ Cardinality(TitleCalls) < MaxTitleTurns
  /\ Cardinality(InFlight) <= MaxPending
  /\ stClient' = "resumed"
  /\ UNCHANGED <<store, stCalls, lastTitle, agVars, libVars, trackVars, todoVars, mgrVars, streamVars, apiVars>>

TitleNext ==
  StoreCreate \/ StoreUserMessage \/ TitleCompletion \/ StoreProgress \/ StoreNextTurn

SpecTitle == TitleInit /\ [][TitleNext]_vars

(***************************************************************************)
(* The transcript store of one conversation under calls made one after     *)
(* the other, each awaited before the next is made.                        *)
(***************************************************************************)
EventTypes == {"user.message", "assistant.message", "tool.call", "session.done"}

SeqInit ==
  /\ mgr = NewManager("local")
  /\ MgrFresh
  /\ StreamIdle
  /\ ApiIdle
  /\ TrackerIdle
  /\ TodosIdle
  /\ AgUiIdle
  /\ LibIdle
  /\ store = NewStore
  /\ stCalls = <<>>
  /\ stClient = "sequential"
  /\ lastTitle = Absent

\* the call is made and awaited
SeqCall(op, arg) ==
  LET c == StoreCallStart(store, op, arg) IN
  /\ stClient = "sequential"
  /\ Len(stCalls) < MaxStoreOps
  /\ store' = StoreAwait(store, c)
  /\ stCalls' = Append(stCalls, [c EXCEPT !.pc = "done"])
  /\ lastTitle' = IF op = "updateTitle" /\ IsPresent(store.meta)
                  THEN Some(arg[1]) ELSE lastTitle
  /\ UNCHANGED <<stClient, agVars, libVars, trackVars, todoVars, mgrVars, streamVars, apiVars>>

SeqCreate == SeqCall("create", <<>>)

SeqAppendEvent == \E type \in EventTypes : SeqCall("appendEvent", Record(type))

SeqUpdateTitle == \E title \in {GeneratedTitle, OlderTitle} : SeqCall("updateTitle", <<title>>)

SeqUpdateStatus == \E status \in {"active", "completed"} : SeqCall("updateStatus", <<status>>)

SeqNext == SeqCreate \/ SeqAppendEvent \/ SeqUpdateTitle \/ SeqUpdateStatus

SpecStoreSeq == SeqInit /\ [][SeqNext]_vars




(***************************************************************************)
(* AzureSessionManager.execute against the session executor.  execute      *)
(* resolves the environment, acquires a token, posts the request and       *)
(* inspects the answer; the executor runs the command with a timeout and   *)
(* answers from the shape of the error the child process module rejects    *)
(* with.  An outcome of the command is one of:                             *)
(*   "ok"       exit code 0                                                *)
(*   "exit"     non-zero exit code (killed unset, code the exit code)      *)
(*   "timeout"  killed by the timeout (killed set, code null)              *)
(*   "signal"   ended by a signal from outside (killed unset, code null)   *)
(*   "spawn"    the interpreter could not be started (code a string)       *)
(***************************************************************************)
RunOutcomes == {"ok", "exit", "timeout", "signal", "spawn"}

ExecError(killed, code) == [killed |-> killed, code |-> code]

RunError(run) ==
  CASE run = "exit" -> ExecError(FALSE, Some("2"))
    [] run = "timeout" -> ExecError(TRUE, Absent)
    [] run = "signal" -> ExecError(FALSE, Absent)
    [] OTHER -> ExecError(FALSE, Some("ENOENT"))

Properties(status, stdout, stderr, returnCode) ==
  [status |-> status, stdout |-> stdout, stderr |-> stderr, returnCode |-> returnCode]

jsonResponse(statusCode, properties) ==
  [status |-> statusCode, ok |-> statusCode \in 200..299, properties |-> properties]

Languages == {"bash", "sh", "javascript", "js", "python"}

handleExecute_Always200(data, run) ==
  LET props == data.properties
      code == IF IsPresent(props.code) THEN Val(props.code) ELSE ""
      shellCommand == IF IsPresent(props.shellCommand) THEN Val(props.shellCommand) ELSE ""
  IN IF code = "" /\ shellCommand = "" THEN jsonResponse(400, Absent)
     ELSE IF shellCommand = "" /\ props.language \notin Languages
       THEN jsonResponse(400, Absent)
     ELSE IF run = "ok"
       THEN jsonResponse(200, Some(Properties("Success", "out", "", "0")))
     ELSE LET err == RunError(run) IN
          jsonResponse(200,
            Some(Properties("Failed", "", "err",
                            IF IsPresent(err.code) THEN Val(err.code) ELSE "1")))

handleExecute(data, run) ==
  LET props == data.properties
      code == IF IsPresent(props.code) THEN Val(props.code) ELSE ""
      shellCommand == IF IsPresent(props.shellCommand) THEN Val(props.shellCommand) ELSE ""
  IN IF code = "" /\ shellCommand = "" THEN jsonResponse(400, Absent)
     ELSE IF shellCommand = "" /\ props.language \notin Languages
       THEN jsonResponse(400, Absent)
     ELSE IF run = "ok"
       THEN jsonResponse(200, Some(Properties("Success", "out", "", "0")))
     ELSE LET err == RunError(run)
              isTimeout == err.killed \/ err.code = Some("ERR_CHILD_PROCESS_TIMEOUT")
          IN jsonResponse(IF isTimeout THEN 408 ELSE 200,
               Some(Properties("Failed", "", "err",
                               IF IsPresent(err.code) THEN Val(err.code) ELSE "1")))

ExecOptions(code, shellCommand, language) ==
  [code |-> code, shellCommand |-> shellCommand, language |-> language]

\* what one execute call did: whether the promise rejected, the status of
\* the answer if there was one (0 if none), and the value it resolved to
Executed(envId, raised, status, value) ==
  [envId |-> envId, raised |-> raised, status |-> status, value |-> value]

\* token: ensureToken resolved; sent: fetch resolved with an answer
execute(m, sessionId, options, token, sent, run) ==
  LET envId == IF sessionId \in DOMAIN m.sessionToEnv
               THEN m.sessionToEnv[sessionId] ELSE sessionId
      body == [properties |->
                 [code |-> options.code,
                  shellCommand |-> options.shellCommand,
                  language |-> IF IsPresent(options.language)
                               THEN Val(options.language) ELSE "bash"]]
      response == handleExecute(body, run)
  IN IF ~token THEN Executed(envId, TRUE, 0, Absent)
     ELSE IF ~sent THEN Executed(envId, TRUE, 0, Absent)
     ELSE IF ~response.ok THEN Executed(envId, TRUE, response.status, Absent)
     ELSE Executed(envId, FALSE, response.status, response.properties)

(***************************************************************************)
(* SpecExec: execute calls on an Azure manager that has mapped a           *)
(* conversation or not, over every request and every outcome.              *)
(***************************************************************************)
ExecInit ==
  /\ mgr \in {NewManager("azure"),
              AzureMapSession(NewManager("azure"), <<"sid", 1>>, <<"env", 1>>)}
  /\ MgrFresh
  /\ StreamIdle
  /\ ApiIdle
  /\ TrackerIdle
  /\ TodosIdle
  /\ AgUiIdle
  /\ StoreIdle
  /\ exLog = <<>>
  /\ srLog = <<>>

ExecExecute ==
  \E sessionId \in {<<"sid", 1>>, <<"env", 2>>},
     code \in {Absent, Some("c")},
     shellCommand \in {Absent, Some("s")},
     language \in {Absent, Some("python"), Some("ruby")},
     token \in BOOLEAN, sent \in BOOLEAN, run \in RunOutcomes :
    LET options == ExecOptions(code, shellCommand, language) IN
    /\ Len(exLog) < MaxExecs
    /\ exLog' = Append(exLog,
                  [sessionId |-> sessionId, options |-> options, token |-> token,
                   sent |-> sent, run |-> run,
                   out |-> execute(mgr, sessionId, options, token, sent, run)])
    /\ UNCHANGED <<srLog, agVars, storeVars, trackVars, todoVars, mgrVars,
                   streamVars, apiVars>>

SpecExec == ExecInit /\ [][ExecExecute]_vars

(***************************************************************************)
(* The stop-reason helpers.  A StopReason is one of five codes or null     *)
(* ("null" here, as in the query result); the runtime may also hand over   *)
(* a code the type does not list.                                          *)
(***************************************************************************)
StopReasons == {"end_turn", "max_tokens", "refusal", "tool_use", "stop_sequence"}

isComplete(reason) ==
  reason = "end_turn"

isMaxTokens(reason) ==
  reason = "max_tokens"

isRefusal(reason) ==
  reason = "refusal"

isToolUse(reason) ==
  reason = "tool_use"

isStopSequence_AsToolUse(reason) ==
  reason = "tool_use"

isStopSequence(reason) ==
  reason = "stop_sequence"

stopReasonLabel(reason) ==
  CASE reason = "end_turn" -> "Completed"
    [] reason = "max_tokens" -> "Token limit reached"
    [] reason = "refusal" -> "Refused"
    [] reason = "tool_use" -> "Tool invocation"
    [] reason = "stop_sequence" -> "Stop sequence"
    [] OTHER -> "Unknown"

(***************************************************************************)
(* SpecReasons: the helpers applied to a series of codes.                  *)
(***************************************************************************)
ReasonInputs == StopReasons \cup {"null", "pause_turn"}

ReasonsInit ==
  /\ mgr = NewManager("local")
  /\ MgrFresh
  /\ StreamIdle
  /\ ApiIdle
  /\ TrackerIdle
  /\ TodosIdle
  /\ AgUiIdle
  /\ StoreIdle
  /\ exLog = <<>>
  /\ srLog = <<>>

Classify ==
  \E reason \in ReasonInputs :
    /\ Len(srLog) < MaxReasons
    /\ srLog' = Append(srLog,
                  [reason |-> reason,
                   is |-> [isComplete |-> isComplete(reason),
                           isMaxTokens |-> isMaxTokens(reason),
                           isRefusal |-> isRefusal(reason),
                           isToolUse |-> isToolUse(reason),
                           isStopSequence |-> isStopSequence(reason)],
                   label |-> stopReasonLabel(reason)])
    /\ UNCHANGED <<exLog, agVars, storeVars, trackVars, todoVars, mgrVars,
                   streamVars, apiVars>>

SpecReasons == ReasonsInit /\ [][Classify]_vars

(***************************************************************************)
(* Claims about the session managers, checked under SpecMgr.               *)
(***************************************************************************)

\* C1: in each strategy, once prepare(X) returned E and mapSession(X, E) was
\* called, a later prepare(X) with no destroy in between returns E and
\* allocates nothing: no directory or container is created, no identifier
\* is drawn, the manager is unchanged.
C1_ReuseAfterAssociate ==
  (lastCall.op = "prepare" /\ lastCall.assocPre # None) =>
    /\ lastCall.envId = lastCall.assocPre
    /\ ~lastCall.created
    /\ ~lastCall.fresh
    /\ ~lastCall.raised
    /\ ~lastCall.changed

C1_Witness ==
  /\ lastCall.op = "prepare"
  /\ lastCall.assocPre # None
  /\ lastCall.envId = lastCall.assocPre
  /\ mgr.strategy = "docker"

\* C5: in every strategy, after destroy(c) has returned the map no longer
\* contains c, whether or not a backing resource was recorded for its env.
C5_DestroyRemovesMapping ==
  (lastCall.op = "destroy" /\ ~lastCall.raised) =>
    lastCall.arg \notin DOMAIN mgr.sessionToEnv

C7_LocalDestroyThenFresh ==
  mgr.strategy = "local" =>
    /\ (lastCall.op = "destroy" /\ lastCall.envId # None) =>
         /\ lastCall.envId \notin mgr.dirs
         /\ lastCall.arg \notin DOMAIN mgr.sessionToEnv
    /\ (lastCall.op = "prepare" /\ lastCall.destroyedPre # None) =>
         /\ lastCall.envId # lastCall.destroyedPre
         /\ lastCall.fresh
         /\ lastCall.created
         /\ lastCall.envId \in mgr.dirs

C7_Witness ==
  /\ mgr.strategy = "local"
  /\ lastCall.op = "prepare"
  /\ lastCall.destroyedPre # None
  /\ lastCall.envId # lastCall.destroyedPre
  /\ lastCall.destroyedPre \notin mgr.dirs


(***************************************************************************)
(* Claims about streamQuery, checked under SpecStream.                     *)
(***************************************************************************)
TypeIdx(evs, types) == {i \in 1..Len(evs) : evs[i].type \in types}

\* The events yielded before the last loop iteration.
EventsBefore == SubSeq(events, 1, Len(events) - Len(lastStep.out))

RECURSIVE SessionSeq(_)
\* the identities of the session events of a sequence, in order
SessionSeq(evs) ==
  IF evs = <<>> THEN <<>>
  ELSE (IF Head(evs).type = "session" THEN <<Head(evs).sessionId>> ELSE <<>>)
         \o SessionSeq(Tail(evs))

LastOf(ids) == IF ids = <<>> THEN None ELSE ids[Len(ids)]

\* C8: when the raw stream ends without raising, exactly one done event has
\* been yielded and it is the last event, also when nothing else was
\* yielded; no done event is yielded before the stream ends.
C8_ExactlyOneDoneLast ==
  /\ pc = "done" => TypeIdx(events, {"done"}) = {Len(events)}
  /\ pc \in {"running", "raised"} => TypeIdx(events, {"done"}) = {}

C8_Witness ==
  /\ pc = "done"
  /\ Len(events) = 1
  /\ events[1].type = "done"
  /\ nmsgs > 0
  /\ sq.stopReason = "null"

\* C9 as claimed: the usage event derived from an assistant message comes
\* after every tool_call and todo_update event derived from that message.
C9_UsageAfterDerived ==
  (IsPresent(lastStep.msg) /\ isAssistant(Val(lastStep.msg))) =>
    \A i \in TypeIdx(lastStep.out, {"usage"}) :
      \A j \in TypeIdx(lastStep.out, {"tool_call", "todo_update"}) : j < i

\* C9 as amended: the usage event derived from an assistant message comes
\* before every tool_call and todo_update event derived from that message.
C9_UsageBeforeDerived ==
  (IsPresent(lastStep.msg) /\ isAssistant(Val(lastStep.msg))) =>
    \A i \in TypeIdx(lastStep.out, {"usage"}) :
      \A j \in TypeIdx(lastStep.out, {"tool_call", "todo_update"}) : i < j

C9_Witness ==
  /\ IsPresent(lastStep.msg)
  /\ isAssistant(Val(lastStep.msg))
  /\ TypeIdx(lastStep.out, {"usage"}) # {}
  /\ TypeIdx(lastStep.out, {"tool_call"}) # {}
  /\ TypeIdx(lastStep.out, {"todo_update"}) # {}

\* C10: a loop iteration yields a session event exactly when its message
\* carries a non-empty identity different from the one of the last session
\* event yielded before (or none was yielded); the event carries that
\* identity, and no two consecutive session events carry the same one.
C10_SessionOnChange ==
  /\ IsPresent(lastStep.msg) =>
       LET sid == Val(lastStep.msg).sessionId
           yielded == SessionSeq(lastStep.out)
           change == Truthy(sid) /\ sid # LastOf(SessionSeq(EventsBefore))
       IN /\ change => yielded = <<sid>>
          /\ ~change => yielded = <<>>
  /\ LET ids == SessionSeq(events)
     IN \A i \in 1..(Len(ids) - 1) : ids[i] # ids[i + 1]

C10_Witness ==
  /\ IsPresent(lastStep.msg)
  /\ Truthy(Val(lastStep.msg).sessionId)
  /\ Val(lastStep.msg).sessionId = LastOf(SessionSeq(EventsBefore))
  /\ SessionSeq(lastStep.out) = <<>>
  /\ Len(SessionSeq(events)) = 2

RECURSIVE DeltaTexts(_)
\* the texts of the text_delta events of a sequence, in order
DeltaTexts(evs) ==
  IF evs = <<>> THEN <<>>
  ELSE (IF Head(evs).type = "text_delta" THEN <<Head(evs).text>> ELSE <<>>)
         \o DeltaTexts(Tail(evs))

RECURSIVE Join(_)
\* the concatenation of a sequence of texts
Join(texts) == IF texts = <<>> THEN <<>> ELSE Head(texts) \o Join(Tail(texts))

\* a raw message that is a partial text delta, and its text
IsPartialText(m) ==
  /\ m.type = "stream_event"
  /\ IsPresent(m.event)
  /\ Val(m.event).type = "content_block_delta"
  /\ IsPresent(Val(m.event).delta)
  /\ Val(Val(m.event).delta).type = "text_delta"
  /\ IsPresent(Val(Val(m.event).delta).text)

PartialText(m) == Val(Val(Val(m.event).delta).text)

\* The result carried by the done event that ends the event sequence.
DoneResult == Val(events[Len(events)].result)

\* C11: a loop iteration over a partial text delta yields exactly one
\* text_delta event, with the delta's text; an iteration over any other
\* message (a completed assistant message included) yields none; and
\* done.result.text is the concatenation, in order, of the texts of all
\* text_delta events of the turn.
C11_TextDeltas ==
  /\ IsPresent(lastStep.msg) =>
       DeltaTexts(lastStep.out) =
         IF IsPartialText(Val(lastStep.msg))
         THEN <<PartialText(Val(lastStep.msg))>> ELSE <<>>
  /\ pc = "done" => DoneResult.text = Join(DeltaTexts(events))

\* C11 witness: two deltas "a" and "b" and an assistant message whose
\* content has the text "a" were consumed; done.result.text is "ab".
C11_Witness ==
  /\ pc = "done"
  /\ DeltaTexts(events) = << <<"a">>, <<"b">> >>
  /\ DoneResult.text = <<"a", "b">>
  /\ \E i \in TypeIdx(events, {"tool_call"}) : Val(events[i].toolCall).id = "t1"

RECURSIVE ToolCallSeq(_)
\* the tool calls carried by the tool_call events of a sequence, in order
ToolCallSeq(evs) ==
  IF evs = <<>> THEN <<>>
  ELSE (IF Head(evs).type = "tool_call" THEN <<Val(Head(evs).toolCall)>> ELSE <<>>)
         \o ToolCallSeq(Tail(evs))

\* the tool-invocation fragments of a raw assistant message, in content order
ToolFragments(m) ==
  IF m.type = "assistant" /\ IsPresent(m.message) /\ IsPresent(Val(m.message).content)
  THEN SelectSeq(Val(Val(m.message).content), LAMBDA b : b.type = "tool_use")
  ELSE <<>>

\* C12: a loop iteration yields exactly one tool_call event per
\* tool-invocation fragment of its assistant message, in content order and
\* carrying the fragment's id and name (none for other messages), and
\* done.result.toolCalls is the sequence of tool calls of those events.
C12_ToolCalls ==
  /\ IsPresent(lastStep.msg) =>
       LET yielded == ToolCallSeq(lastStep.out)
           frags == ToolFragments(Val(lastStep.msg))
       IN /\ Len(yielded) = Len(frags)
          /\ \A i \in 1..Len(frags) :
               /\ yielded[i].id = frags[i].id
               /\ yielded[i].name = frags[i].name
  /\ pc = "done" => DoneResult.toolCalls = ToolCallSeq(events)

\* C12 witness: a message with two tool invocations and one with a third
\* were consumed; done.result.toolCalls lists the three in order.
C12_Witness ==
  /\ pc = "done"
  /\ Len(DoneResult.toolCalls) = 3
  /\ [i \in 1..3 |-> ToolCallSeq(events)[i].id] = <<"t1", "t2", "t3">>

\* the four counters of a raw usage record, a missing field counting as 0
StatsOf(u) ==
  [inputTokens |-> IF "input_tokens" \in DOMAIN u THEN u.input_tokens ELSE 0,
   outputTokens |-> IF "output_tokens" \in DOMAIN u THEN u.output_tokens ELSE 0,
   cacheReadInputTokens |->
     IF "cache_read_input_tokens" \in DOMAIN u THEN u.cache_read_input_tokens ELSE 0,
   cacheCreationInputTokens |->
     IF "cache_creation_input_tokens" \in DOMAIN u
     THEN u.cache_creation_input_tokens ELSE 0]

\* The raw stream ended with a result message that carries a usage record.
EndedWithUsage ==
  /\ pc = "done"
  /\ IsPresent(lastRaw)
  /\ isResult(Val(lastRaw))
  /\ IsPresent(Val(lastRaw).usage)

\* C13: when the raw stream ends with a result message carrying a usage
\* record, done.result.usage (streamQuery) and result.usage (runQuery) are
\* that record's four fields, missing fields 0, whatever was accumulated.
C13_FinalUsageIsResultUsage ==
  EndedWithUsage =>
    /\ DoneResult.usage = StatsOf(Val(Val(lastRaw).usage))
    /\ QueryResult(rq).usage = StatsOf(Val(Val(lastRaw).usage))

\* C13 witness: an assistant message counted a cache read before the result
\* message, whose record has no cache-read field: the final counter is 0.
C13_Witness ==
  /\ EndedWithUsage
  /\ "m1" \in sq.tracker.seen
  /\ \E i \in TypeIdx(events, {"usage"}) :
       Val(events[i].usage).cacheReadInputTokens = 1
  /\ DoneResult.usage.cacheReadInputTokens = 0
  /\ DoneResult.usage.inputTokens = 3

(***************************************************************************)
(* Claims about the usage tracker, checked under SpecTracker.              *)
(***************************************************************************)
\* the track calls made before the last one, since creation or the last reset
LogBefore == SubSeq(tlog, 1, Len(tlog) - 1)

\* the logged track calls that carried a usage record, in order
PresentCalls(log) == SelectSeq(log, LAMBDA c : IsPresent(c[2]))

NoTokens ==
  [inputTokens |-> 0, outputTokens |-> 0, cacheReadInputTokens |-> 0,
   cacheCreationInputTokens |-> 0]

RECURSIVE SumStats(_)
\* field-wise sum of the usage records of a sequence of track recs
SumStats(recs) ==
  IF recs = <<>> THEN NoTokens
  ELSE LET h == StatsOf(Val(Head(recs)[2]))
           r == SumStats(Tail(recs))
       IN [inputTokens |-> h.inputTokens + r.inputTokens,
           outputTokens |-> h.outputTokens + r.outputTokens,
           cacheReadInputTokens |-> h.cacheReadInputTokens + r.cacheReadInputTokens,
           cacheCreationInputTokens |->
             h.cacheCreationInputTokens + r.cacheCreationInputTokens]

\* C14: a track(id, u) call whose id was already counted (tracked with a
\* present usage record since creation or the last reset) leaves the four
\* totals unchanged, whatever u is.
C14_RetrackKeepsTotals ==
  (lastOp.op = "track" /\ lastOp.id \in Counted(LogBefore)) =>
    GetStats(tracker) = GetStats(lastOp.before)

\* C14 witness: an id counted with one record is tracked again with a
\* different record, after a setTotals call in between.
C14_Witness ==
  /\ lastOp.op = "track"
  /\ IsPresent(lastOp.usage)
  /\ overwritten
  /\ \E i \in 1..Len(LogBefore) :
       /\ LogBefore[i][1] = lastOp.id
       /\ IsPresent(LogBefore[i][2])
       /\ LogBefore[i][2] # lastOp.usage

\* C15: on a fresh tracker (no setTotals since creation or the last reset),
\* when the track recs that carried a usage record used pairwise distinct
\* ids, each total is the sum of the corresponding field over those records,
\* a missing field counting as 0; recs without a record contribute nothing.
C15_TotalsAreSums ==
  LET recs == PresentCalls(tlog) IN
  (/\ ~overwritten
   /\ \A i, j \in 1..Len(recs) : i # j => recs[i][1] # recs[j][1])
    => GetStats(tracker) = SumStats(recs)

\* C15 witness: three calls, one of them without a record, two with records
\* that miss different fields.
C15_Witness ==
  /\ ~overwritten
  /\ Len(tlog) = 3
  /\ Len(PresentCalls(tlog)) = 2
  /\ PresentCalls(tlog)[1][1] # PresentCalls(tlog)[2][1]
  /\ PresentCalls(tlog)[1][2] # PresentCalls(tlog)[2][2]
  /\ GetStats(tracker).cacheReadInputTokens = 3
  /\ GetStats(tracker).inputTokens = 3

\* C16: after setTotals(U), getStats() is U field for field, missing fields
\* 0, whatever track, setTotals and reset calls came before.
C16_SetTotalsOverwrites ==
  lastOp.op = "setTotals" => GetStats(tracker) = StatsOf(Val(lastOp.usage))

\* C16 witness: the totals held a cache-read count that the record of
\* setTotals does not mention; a reset and a track call came before.
C16_Witness ==
  /\ lastOp.op = "setTotals"
  /\ GetStats(lastOp.before).cacheReadInputTokens > 0
  /\ "cache_read_input_tokens" \notin DOMAIN Val(lastOp.usage)
  /\ preReset # {}
  /\ tlog # <<>>

\* C17: after reset() the four totals are 0 and the de-dup set is empty, and
\* a track(id, U) that follows it is counted in full, also when id had been
\* counted before the reset.
C17_ResetClears ==
  /\ lastOp.op = "reset" => GetStats(tracker) = NoTokens /\ tracker.seen = {}
  /\ (lastOp.op = "track" /\ lastOp.prev = "reset" /\ IsPresent(lastOp.usage)) =>
       GetStats(tracker) = StatsOf(Val(lastOp.usage))

\* C17 witness: an id counted before the reset is tracked right after it.
C17_Witness ==
  /\ lastOp.op = "track"
  /\ lastOp.prev = "reset"
  /\ IsPresent(lastOp.usage)
  /\ lastOp.id \in preReset
  /\ GetStats(tracker) # NoTokens

RECURSIVE UsageSeq(_)
\* the counters carried by the usage events of a sequence, in order
UsageSeq(evs) ==
  IF evs = <<>> THEN <<>>
  ELSE (IF Head(evs).type = "usage" THEN <<Val(Head(evs).usage)>> ELSE <<>>)
         \o UsageSeq(Tail(evs))

\* no counter of b is lower than the same counter of a
NotLower(a, b) ==
  /\ a.inputTokens <= b.inputTokens
  /\ a.outputTokens <= b.outputTokens
  /\ a.cacheReadInputTokens <= b.cacheReadInputTokens
  /\ a.cacheCreationInputTokens <= b.cacheCreationInputTokens

\* the counters of the last usage event yielded before the last iteration
UsageBefore ==
  LET us == UsageSeq(EventsBefore) IN
  IF us = <<>> THEN NoTokens ELSE us[Len(us)]

\* C18: with non-negative usage fields, a usage event yielded for an
\* assistant message never carries a counter lower than the usage event
\* before it (or than 0); only the usage event of a result message, the
\* authoritative overwrite, may lower a counter.
C18_UsageNeverDecreases ==
  (IsPresent(lastStep.msg) /\ ~isResult(Val(lastStep.msg))) =>
    \A i \in 1..Len(UsageSeq(lastStep.out)) :
      NotLower(UsageBefore, UsageSeq(lastStep.out)[i])

\* C18 witness: the second of two assistant messages with different ids
\* raised a counter above the one carried by the first one's usage event.
C18_Witness ==
  /\ IsPresent(lastStep.msg)
  /\ isAssistant(Val(lastStep.msg))
  /\ UsageSeq(EventsBefore) # <<>>
  /\ UsageBefore # NoTokens
  /\ UsageSeq(lastStep.out) # <<>>
  /\ UsageSeq(lastStep.out)[1] # UsageBefore
  /\ Cardinality(sq.tracker.seen) = 2

(***************************************************************************)
(* Claims about the todo extractor, checked under SpecTodos.               *)
(***************************************************************************)
\* positions of the TodoWrite tool invocations among the fragments
TodoWrites == {i \in 1..Len(blocks) :
                 blocks[i].type = "tool_use" /\ blocks[i].name = "TodoWrite"}

\* positions of those whose input carries an item list
TodoLists == {i \in TodoWrites :
                IsPresent(blocks[i].input) /\ IsPresent(Val(blocks[i].input).todos)}

First(S) == CHOOSE i \in S : \A j \in S : i <= j

\* the raw item list of the fragment at position i
ItemsAt(i) == Val(Val(blocks[i].input).todos)

\* the returned list is the raw list with every status normalized
IsNormalized(list, raw) ==
  /\ Len(list) = Len(raw)
  /\ \A k \in 1..Len(raw) :
       /\ list[k].content = raw[k].content
       /\ list[k].status =
            CASE raw[k].status \in {"completed", "done"} -> "completed"
              [] raw[k].status = "in_progress" -> "in_progress"
              [] OTHER -> "pending"

\* C19: a progress snapshot computed from a list that extractTodos returned
\* satisfies completed + inProgress + pending = total = number of items.
C19_ProgressCountsAddUp ==
  (tpc = "extracted" /\ IsPresent(progress)) =>
    LET p == Val(progress) IN
    /\ p.completed + p.inProgress + p.pending = p.total
    /\ p.total = Len(p.todos)
    /\ p.todos = Val(extracted)

\* C19 witness: a list with the statuses "blocked", "pending" and
\* "completed" gives total 3, pending 2, completed 1.
C19_Witness ==
  /\ tpc = "extracted"
  /\ IsPresent(progress)
  /\ Val(progress).total = 3
  /\ Val(progress).pending = 2
  /\ Val(progress).completed = 1

\* C20 (as stated): extractTodos returns null exactly when no fragment is a
\* TodoWrite tool invocation; otherwise it returns the item list of the
\* first TodoWrite invocation, later ones being ignored.
C20_NullIffNoTodoWrite ==
  tpc = "extracted" =>
    /\ extracted = Absent <=> TodoWrites = {}
    /\ TodoWrites # {} =>
         /\ First(TodoWrites) \in TodoLists
         /\ IsPresent(extracted)
         /\ IsNormalized(Val(extracted), ItemsAt(First(TodoWrites)))

\* C20 (amended): extractTodos returns null exactly when no fragment is a
\* TodoWrite tool invocation carrying an item list; otherwise it returns the
\* status-normalized item list of the first such fragment (later ones are
\* ignored), which may be empty: a result distinct from null.
C20_FirstTodoList ==
  tpc = "extracted" =>
    /\ extracted = Absent <=> TodoLists = {}
    /\ TodoLists # {} =>
         /\ IsPresent(extracted)
         /\ IsNormalized(Val(extracted), ItemsAt(First(TodoLists)))

\* C20 witness: the first TodoWrite invocation has no item list, the second
\* has an empty one and a third a non-empty one: the result is the empty
\* list, not null.
C20_Witness ==
  /\ tpc = "extracted"
  /\ Cardinality(TodoWrites) = 3
  /\ First(TodoWrites) \notin TodoLists
  /\ Cardinality(TodoLists) = 2
  /\ ItemsAt(First(TodoLists)) = <<>>
  /\ extracted = Some(<<>>)
  /\ extracted # Absent

\* C21: the list extractTodos returns has the items of the invocation it
\* was taken from, in the same order and with the same content, with status
\* "completed" and "done" as completed, "in_progress" as in_progress and
\* every other status as pending.
C21_ItemsNormalizedInOrder ==
  (tpc = "extracted" /\ IsPresent(extracted)) =>
    LET raw == ItemsAt(First(TodoLists))
        list == Val(extracted)
    IN /\ [k \in 1..Len(list) |-> list[k].content]
            = [k \in 1..Len(raw) |-> raw[k].content]
       /\ \A k \in 1..Len(raw) :
            /\ raw[k].status \in {"completed", "done"} => list[k].status = "completed"
            /\ raw[k].status = "in_progress" => list[k].status = "in_progress"
            /\ raw[k].status \notin {"completed", "done", "in_progress"}
                 => list[k].status = "pending"

\* C21 witness: a list with the statuses "done" and "in_progress" was
\* returned as completed and in_progress, in that order.
C21_Witness ==
  /\ tpc = "extracted"
  /\ IsPresent(extracted)
  /\ [k \in 1..Len(ItemsAt(First(TodoLists))) |-> ItemsAt(First(TodoLists))[k].status]
       = <<"done", "in_progress">>
  /\ Val(extracted) = << [content |-> "A", status |-> "completed"],
                         [content |-> "B", status |-> "in_progress"] >>

(***************************************************************************)
(* Claims about the AG-UI transcoder, checked under SpecAgUi.              *)
(***************************************************************************)
\* the types of the AG-UI events of an output
AgTypes(out) == [i \in 1..Len(out) |-> out[i].data.type]

\* the positions of an output that hold an event of the type
AgAt(out, type) == {i \in 1..Len(out) : out[i].data.type = type}

\* the types of the domain events of an input
InTypes(in) == [i \in 1..Len(in) |-> in[i].type]

Malformed == <<"msg", -2>>

RECURSIVE OpenMessage(_)
\* The text message left open by an output: NoMessage if none is, Malformed
\* if somewhere in the output a message was started while one was open, a
\* message was ended or given content that was not the open one, or a tool
\* call was started while a message was open.
OpenMessage(out) ==
  IF out = <<>> THEN NoMessage
  ELSE LET before == OpenMessage(SubSeq(out, 1, Len(out) - 1))
           e == out[Len(out)].data
       IN CASE before = Malformed -> Malformed
            [] e.type = "TEXT_MESSAGE_START" ->
                 IF before = NoMessage /\ e.messageId # NoMessage
                 THEN e.messageId ELSE Malformed
            [] e.type = "TEXT_MESSAGE_CONTENT" ->
                 IF before # NoMessage /\ e.messageId = before
                 THEN before ELSE Malformed
            [] e.type = "TEXT_MESSAGE_END" ->
                 IF before # NoMessage /\ e.messageId = before
                 THEN NoMessage ELSE Malformed
            [] e.type = "TOOL_CALL_START" ->
                 IF before = NoMessage THEN NoMessage ELSE Malformed
            [] OTHER -> before

C24_OneOpenMessage ==
  /\ OpenMessage(agOut) # Malformed
  /\ (OpenMessage(agOut) # NoMessage) = tx.messageStarted
  /\ tx.messageStarted => OpenMessage(agOut) = currentMessageId(tx)

C24_Witness ==
  /\ InTypes(agIn) = <<"text_delta", "text_delta", "tool_call", "text_delta">>
  /\ AgTypes(agOut) =
       << "RUN_STARTED", "TEXT_MESSAGE_START", "TEXT_MESSAGE_CONTENT",
          "TEXT_MESSAGE_CONTENT", "TEXT_MESSAGE_END", "TOOL_CALL_START",
          "TOOL_CALL_ARGS", "TOOL_CALL_END", "TEXT_MESSAGE_START",
          "TEXT_MESSAGE_CONTENT" >>
  /\ OpenMessage(agOut) = <<"msg", 1>>

Terminators(sse) == {i \in 1..Len(sse) : sse[i] \in {"done", "error"}}

IsPrefix(a, b) == Len(a) <= Len(b) /\ SubSeq(b, 1, Len(a)) = a

\* C26: a /stream response holds no terminating event while the stream is
\* consumed, exactly one - done, as its last event - once the stream has
\* ended, and exactly one - error, as its last event, with the message of
\* the Error raised or "Unknown error" for any other value - once
\* consumption has raised; and no step of a turn removes or changes an
\* event already written.
C26_OneTerminatingEvent ==
  /\ [](turn.route = "stream" =>
          /\ turn.status = "running" => Terminators(turn.sse) = {}
          /\ turn.status = "done" =>
               /\ Terminators(turn.sse) = {Len(turn.sse)}
               /\ turn.sse[Len(turn.sse)] = "done"
               /\ turn.sseError = Absent
          /\ turn.status = "error" =>
               /\ Terminators(turn.sse) = {Len(turn.sse)}
               /\ turn.sse[Len(turn.sse)] = "error"
               /\ turn.sseError =
                    Some(IF Val(turn.thrown).isError
                         THEN Val(turn.thrown).message ELSE "Unknown error"))
  /\ [][turn.route = "stream" /\ turn.status = "running" =>
          IsPrefix(turn.sse, turn'.sse)]_vars

C26_Witness ==
  /\ turn.route = "stream"
  /\ turn.status = "error"
  /\ turn.sse = <<"session", "text_delta", "error">>
  /\ turn.sseError = Some("Unknown error")

\* C27: a request rejected with 400 has caused no sessionManager.prepare
\* call, no file ingestion and no query of the agent runtime.
C27_RejectedBeforeAnyInteraction ==
  turn.status = "rejected" =>
    /\ turn.http = 400
    /\ turn.prepares = 0
    /\ ~turn.ingested
    /\ turn.n = 0 /\ turn.q = NewQuery /\ turn.sse = <<>>

\* the appendEvent calls of a turn that carry an event of the type
Appends(t, type) ==
  {i \in 1..Len(t.rec) : t.rec[i].op = "appendEvent" /\ t.rec[i].type = type}

\* the conversation identity of the turn is known to the handler: it was
\* given in the request, or the runtime has revealed it
KnownIdentity(t) == t.resume # None \/ t.q.sessionId # None

\* C28: a /stream or /ag-ui turn that has reached done with a known
\* identity has sent the transcript store exactly one user.message, one
\* assistant.message with the accumulated text and one session.done with
\* the stop reason.
C28_TranscriptPerTurn ==
  (turn.route \in {"stream", "agui"} /\ turn.status = "done" /\ KnownIdentity(turn)) =>
    /\ Cardinality(Appends(turn, "user.message")) = 1
    /\ Cardinality(Appends(turn, "assistant.message")) = 1
    /\ Cardinality(Appends(turn, "session.done")) = 1
    /\ \A i \in Appends(turn, "assistant.message") :
         turn.rec[i].content = turn.fullText
    /\ \A i \in Appends(turn, "session.done") :
         turn.rec[i].stopReason = QueryResult(turn.q).stopReason

(***************************************************************************)
(* Claims about the transcript store, checked under SpecStore.             *)
(***************************************************************************)
\* C29: the records of the turn lie in the event log in the order in which
\* the handler appended them: user.message, the tool.call records in
\* emission order, assistant.message, session.done.
C29_LogInCausalOrder ==
  \A i, j \in 1..Len(store.log) :
    i < j => store.log[i][2] < store.log[j][2]

\* C30: once an updateTitle call has completed, the metadata holds its
\* title, whatever appendEvent calls run beside it.
C30_ReadsReflectLastUpdate ==
  IsPresent(lastTitle) =>
    IsPresent(store.meta) /\ Val(store.meta).title = Val(lastTitle)

(***************************************************************************)
(* Claims about the transcript store under awaited calls, checked under    *)
(* SpecStoreSeq.                                                           *)
(***************************************************************************)
\* the records of the appendEvent calls made so far, in call order
AppendedInOrder ==
  LET idx == SelectSeq([i \in 1..Len(stCalls) |-> i],
                       LAMBDA i : stCalls[i].op = "appendEvent")
  IN [k \in 1..Len(idx) |-> stCalls[idx[k]].event]

\* C31: getEvents returns the records of the awaited appendEvent calls in
\* call order, and after any store operation what it returned before is a
\* prefix of what it returns.
C31_LogAppendOnly ==
  /\ [](getEvents(store) = AppendedInOrder)
  /\ [][IsPrefix(getEvents(store), getEvents(store'))]_vars

C31_Witness ==
  /\ Len(getEvents(store)) = 2
  /\ getEvents(store)[1][1] = "user.message"
  /\ getEvents(store)[2][1] = "assistant.message"
  /\ stCalls[Len(stCalls)].op = "updateStatus"
  /\ \E i \in 1..Len(stCalls) : stCalls[i].op = "create" /\ i > 1

(***************************************************************************)
(* Claims about the API turn handlers, checked under SpecApi.              *)
(***************************************************************************)

\* C2: once a /query or /stream turn without an explicit cwd ran in
\* environment E and the runtime revealed identity s in it, and s was not
\* destroyed since, a turn resuming s runs in E: prepare(s) returns E.envId.
C2_ResumeRunsInSameEnv ==
  \A s \in SessionIds :
    ranIn[s] # None => Prepare(mgr, s, TRUE).envId = ranIn[s]

\* C3: no envId is mapped from two distinct conversation identities.
C3_NoEnvSharedByIdentities ==
  \A a, b \in DOMAIN mgr.sessionToEnv :
    a # b => mgr.sessionToEnv[a] # mgr.sessionToEnv[b]

ExecCalls == {exLog[i] : i \in 1..Len(exLog)}

\* the endpoint answered the call
Answered(e) == e.token /\ e.sent

\* the executor got as far as running the command of the call
RanCommand(e) ==
  /\ Answered(e)
  /\ \/ IsPresent(e.options.shellCommand)
     \/ /\ IsPresent(e.options.code)
        /\ e.options.language \in {Absent, Some("python")}

Classified == {srLog[i] : i \in 1..Len(srLog)}

TruePredicates(c) == {p \in DOMAIN c.is : c.is[p]}

\* C33: for each of the five non-null stop-reason codes exactly one of the
\* five predicates is true; for null or an unrecognized code all five are
\* false and stopReasonLabel returns "Unknown".
C33_PredicatesPartitionCodes ==
  \A c \in Classified :
    /\ c.reason \in StopReasons => Cardinality(TruePredicates(c)) = 1
    /\ c.reason \notin StopReasons =>
         /\ TruePredicates(c) = {}
         /\ c.label = "Unknown"
    /\ \A d \in Classified :
         /\ c.reason \in StopReasons
         /\ d.reason \in StopReasons
         /\ c.reason # d.reason
         => TruePredicates(c) # TruePredicates(d)

C33_Witness ==
  /\ \E c \in Classified :
       c.reason = "stop_sequence" /\ TruePredicates(c) = {"isStopSequence"}
  /\ \E c \in Classified : c.reason = "null" /\ c.label = "Unknown"
  /\ \E c \in Classified : c.reason = "pause_turn" /\ c.label = "Unknown"


(***************************************************************************)
(* Further claims about the queries, checked under SpecStream.             *)
(***************************************************************************)
\* C34: for every raw message stream that ends without raising, the result
\* of runQuery and the result in the done event of streamQuery agree on
\* sessionId, stopReason, usage, todos and toolCalls (text may differ).
C34_EntryPointsAgree ==
  pc = "done" =>
    \A f \in {"sessionId", "stopReason", "usage", "todos", "toolCalls"} :
      QueryResult(rq)[f] = DoneResult[f]

C34_Witness ==
  /\ pc = "done"
  /\ DoneResult.text # QueryResult(rq).text
  /\ DoneResult.toolCalls # <<>>
  /\ DoneResult.usage # ZeroUsage
  /\ DoneResult.stopReason # "null"
  /\ QueryResult(rq).usage = DoneResult.usage

UsageEvents == SelectSeq(events, LAMBDA e : e.type = "usage")

\* the payload of the most recent usage event, or all zeros if there is none
LastUsagePayload ==
  IF UsageEvents = <<>> THEN ZeroUsage
  ELSE Val(UsageEvents[Len(UsageEvents)].usage)

\* C35: in streamQuery the usage in the result of the done event equals the
\* payload of the most recent usage event of the turn, or all zeros if no
\* usage event was emitted; after every step the tracker's totals are those
\* of the last usage event.
C35_DoneUsageIsLastUsageEvent ==
  /\ pc \in {"running", "done"} => GetStats(sq.tracker) = LastUsagePayload
  /\ pc = "done" => DoneResult.usage = LastUsagePayload

C35_Witness ==
  /\ pc = "done"
  /\ Len(UsageEvents) >= 2
  /\ UsageEvents[1] # UsageEvents[Len(UsageEvents)]
  /\ DoneResult.usage = Val(UsageEvents[Len(UsageEvents)].usage)
  /\ DoneResult.usage # ZeroUsage


(***************************************************************************)
(* Further claims about the session managers, checked under SpecMgr.       *)
(***************************************************************************)
\* C36: in the local-folder and ephemeral-container strategies every envId
\* that some conversation identity maps to still has its backing resource
\* (existing directory / recorded container), in every reachable state.
C36_NoDanglingMapping ==
  mgr.strategy \in {"local", "docker"} =>
    \A s \in DOMAIN mgr.sessionToEnv : HasResource(mgr, mgr.sessionToEnv[s])


(***************************************************************************)
(* Further claims about the usage tracker, checked under SpecTracker.      *)
(***************************************************************************)
\* the totals t with the fields of the usage record added
PlusUsage(t, usage) ==
  [inputTokens |-> t.inputTokens + Fld(usage, "input_tokens"),
   outputTokens |-> t.outputTokens + Fld(usage, "output_tokens"),
   cacheReadInputTokens |-> t.cacheReadInputTokens + Fld(usage, "cache_read_input_tokens"),
   cacheCreationInputTokens |->
     t.cacheCreationInputTokens + Fld(usage, "cache_creation_input_tokens")]

\* C37: setTotals leaves the de-dup set unchanged: an id tracked before
\* setTotals is still ignored by a later track, while a track of a
\* not-yet-seen id after setTotals adds its usage on top of the overwritten
\* totals.
C37_SetTotalsKeepsSeen ==
  /\ tracker.seen = Counted(tlog)
  /\ lastOp.op = "setTotals" => tracker.seen = lastOp.before.seen
  /\ lastOp.op = "track" /\ overwritten =>
       IF lastOp.id \in Counted(SubSeq(tlog, 1, Len(tlog) - 1))
          \/ ~IsPresent(lastOp.usage)
       THEN tracker = lastOp.before
       ELSE /\ tracker.seen = lastOp.before.seen \cup {lastOp.id}
            /\ tracker.totals = PlusUsage(lastOp.before.totals, Val(lastOp.usage))

C37_Witness ==
  /\ lastOp.op = "track"
  /\ lastOp.prev = "setTotals"
  /\ IsPresent(lastOp.usage)
  /\ lastOp.id \in Counted(SubSeq(tlog, 1, Len(tlog) - 1))
  /\ tracker.totals # ZeroUsage
  /\ tracker = lastOp.before


(***************************************************************************)
(* Further claims about the todo progress of a query, under SpecStream.    *)
(***************************************************************************)
TodoUpdates(evs) == SelectSeq(evs, LAMBDA e : e.type = "todo_update")

\* the payload of the most recent todo_update event, or the empty progress
LastTodoPayload ==
  LET ups == TodoUpdates(events) IN
  IF ups = <<>> THEN emptyProgress ELSE Val(ups[Len(ups)].todos)

\* the item list the message carries in a todo invocation, if it has one
TodosOf(message) ==
  IF isAssistant(message) THEN extractTodos(getContentBlocks(message)) ELSE Absent

\* C38: todo progress is replaced wholesale: each todo_update payload is
\* computed only from the assistant message that triggered it, a message
\* without a todo invocation emits no todo_update and leaves the latest
\* progress unchanged, and the todos of the done result equal the last
\* todo_update payload, or the empty progress if none was emitted.
C38_TodosReplacedWholesale ==
  /\ pc \in {"running", "done"} => sq.latestTodos = LastTodoPayload
  /\ pc = "done" => DoneResult.todos = LastTodoPayload
  /\ IsPresent(lastStep.msg) =>
       LET ups == TodoUpdates(lastStep.out)
           todos == TodosOf(Val(lastStep.msg))
       IN IF IsPresent(todos)
          THEN /\ Len(ups) = 1
               /\ Val(ups[1].todos) = getTodoProgress(Val(todos))
               /\ Val(ups[1].todos).total = Len(Val(todos))
          ELSE ups = <<>>

C38_Witness ==
  /\ pc = "done"
  /\ Len(TodoUpdates(events)) >= 2
  /\ TodoUpdates(events)[1] # TodoUpdates(events)[Len(TodoUpdates(events))]
  /\ DoneResult.todos = LastTodoPayload
  /\ DoneResult.todos.total > 0


(***************************************************************************)
(* Further claims about the turn handlers, checked under SpecTurn.         *)
(***************************************************************************)
\* C39: every conversation with a non-empty event log in the transcript
\* store also has a metadata record: a streaming turn appends events only
\* to the conversation it resumes, whose record an earlier turn created, or
\* to a conversation it has created a record for before.
C39_LoggedConversationHasMetadata ==
  \A i \in 1..Len(turn.rec) :
    turn.rec[i].op = "appendEvent" =>
      \/ turn.rec[i].id = turn.resume
      \/ \E j \in 1..(i - 1) :
           turn.rec[j].op = "create" /\ turn.rec[j].id = turn.rec[i].id


(***************************************************************************)
(* Claims about the title back-fill, checked under SpecTitle.              *)
(***************************************************************************)
\* C40: title back-fill happens at most once per session: once the title
\* is non-empty no title generation of another turn overwrites it, also
\* when a later turn completes while an earlier turn's title generation is
\* still in flight.  (lastTitle changes exactly when a title chain writes.)
C40_TitleBackfilledOnce ==
  [][IsPresent(store.meta) /\ Val(store.meta).title # ""
       => lastTitle' = lastTitle]_vars

====
